---- MODULE Spec2Model ----
(***************************************************************************)
(* CyberCuisine single-page application (src/js/main.js): the hash router, *)
(* the localStorage repositories (users, reviews, recipe cache, current    *)
(* user) and the view controllers that read and write them.                *)
(*                                                                         *)
(* Every handler of main.js is a function from the world before it runs to *)
(* the world after it (a record of all the state it can touch); an action  *)
(* applies one handler, or resumes one async function after an await.      *)
(* Awaits that need no network (a cached template, a cached recipe) resume *)
(* in a microtask, before any other event: they are part of the same step. *)
(***************************************************************************)
EXTENDS Integers, Sequences, FiniteSets, TLC

VARIABLES
    users,          \* localStorage pgrc_users: ordered sequence of User
    reviews,        \* localStorage pgrc_reviews: ordered sequence of Review
    meals,          \* localStorage pgrc_meals: recipe id -> normalized recipe
    currentUser,    \* localStorage pgrc_currentUser: a User, or Null
    fragmentsCache, \* appState.fragmentsCache: template path -> html
    activeRoute,    \* appState.activeRoute
    hash,           \* window.location.hash
    hashEvents,     \* hashchange events queued and not yet delivered
    listening,      \* the hashchange listener is registered (initApp line 51)
    mount,          \* the content of #app and the closures of its listeners
    tasks,          \* async functions suspended at an await on the network
    navTarget,      \* the hash last given to updateActiveNav
    authAction,     \* #ccAuthLink dataset.action: "logout" or "login"
    clock,          \* Date.now(), as the number of ids generated so far
    searchResults,  \* appState.searchResults: the recipes the last search found
    ensureLog,      \* the ensureMealInCache calls of a caller that makes them in sequence
    last            \* the handler the latest step ran

vars == <<users, reviews, meals, currentUser, fragmentsCache, activeRoute, hash,
          hashEvents, listening, mount, tasks, navTarget, authAction, clock,
          searchResults, ensureLog, last>>

(***************************************************************************)
(* Bounds of the model.                                                    *)
(***************************************************************************)
MaxUsers == 2
MaxIds == 4
MaxInFlight == 2

(***************************************************************************)
(* Values.                                                                 *)
(***************************************************************************)
\* JS null in the current-user slot; every real id is positive.
Null == [id |-> 0]

\* No dynamic parameter (null) is <<>>; a parameter p is <<p>>.
NoParam == <<>>

StartsWith(s, p) == Len(s) >= Len(p) /\ SubSeq(s, 1, Len(p)) = p

RECURSIVE TrimLeft(_)
TrimLeft(s) ==
    IF Len(s) > 0 /\ SubSeq(s, 1, 1) = " "
    THEN TrimLeft(SubSeq(s, 2, Len(s)))
    ELSE s

RECURSIVE TrimRight(_)
TrimRight(s) ==
    IF Len(s) > 0 /\ SubSeq(s, Len(s), Len(s)) = " "
    THEN TrimRight(SubSeq(s, 1, Len(s) - 1))
    ELSE s

\* String.prototype.trim
Trim(s) == TrimRight(TrimLeft(s))

\* Array.prototype.findIndex, 1-based; 0 stands for -1.
FindIndex(s, P(_)) ==
    IF \E i \in 1..Len(s) : P(s[i])
    THEN CHOOSE i \in 1..Len(s) : P(s[i]) /\ \A j \in 1..(i - 1) : ~P(s[j])
    ELSE 0

\* Array.prototype.filter
Filter(s, P(_)) == SelectSeq(s, P)

\* Array.prototype.splice(index, 1)
RemoveAt(s, i) == SubSeq(s, 1, i - 1) \o SubSeq(s, i + 1, Len(s))

\* The text of s up to its first "/" (the whole of s when it has none).
RECURSIVE UpToSlash(_)
UpToSlash(s) ==
    IF Len(s) = 0 \/ SubSeq(s, 1, 1) = "/"
    THEN ""
    ELSE SubSeq(s, 1, 1) \o UpToSlash(SubSeq(s, 2, Len(s)))

(***************************************************************************)
(* The world a handler runs in.                                            *)
(***************************************************************************)
World ==
    [users |-> users, reviews |-> reviews, meals |-> meals, cur |-> currentUser,
     frags |-> fragmentsCache, active |-> activeRoute, hash |-> hash,
     events |-> hashEvents, listening |-> listening, mount |-> mount,
     tasks |-> tasks, navT |-> navTarget, auth |-> authAction, clock |-> clock,
     results |-> searchResults]

Commit(w) ==
    /\ users' = w.users
    /\ reviews' = w.reviews
    /\ meals' = w.meals
    /\ currentUser' = w.cur
    /\ fragmentsCache' = w.frags
    /\ activeRoute' = w.active
    /\ hash' = w.hash
    /\ hashEvents' = w.events
    /\ listening' = w.listening
    /\ mount' = w.mount
    /\ tasks' = w.tasks
    /\ navTarget' = w.navT
    /\ authAction' = w.auth
    /\ clock' = w.clock
    /\ searchResults' = w.results

(***************************************************************************)
(* Router configuration (ROUTES, lines 19-28).                             *)
(***************************************************************************)
Route(template, view, auth) == [template |-> template, view |-> view, auth |-> auth]

ROUTES ==
    ("#/home" :> Route("./home.html", "home", FALSE))
    @@ ("#/login" :> Route("./login.html", "login", FALSE))
    @@ ("#/register" :> Route("./register.html", "register", FALSE))
    @@ ("#/profile" :> Route("./profile.html", "profile", TRUE))
    @@ ("#/search" :> Route("./search.html", "search", FALSE))
    @@ ("#/cookbook" :> Route("./cookbook.html", "cookbook", TRUE))
    @@ ("#/reviews" :> Route("./reviews.html", "reviews", TRUE))
    @@ ("#/recipe" :> Route("./recipe-detail.html", "recipe", FALSE))

(***************************************************************************)
(* The mount point #app. view names what was last written into it; the     *)
(* other fields are what the view's controller rendered and the closures   *)
(* of the listeners it attached:                                           *)
(*   armed  the form/button listeners of login, register, profile, search  *)
(*   user   the User captured by initProfileView                           *)
(*   stage  "" | "loading" | "missing" | "empty" | "full" (async views)    *)
(*   meal   the recipe shown by the detail view                            *)
(*   cards  the recipes that have a card in the cookbook view              *)
(*   lst    the closures [meal, inCookbook] whose listeners sit on the     *)
(*          detail view's toggle button, note field and review form        *)
(***************************************************************************)
FreshMount(view) ==
    [view |-> view, armed |-> FALSE, user |-> Null, stage |-> "", meal |-> "",
     cards |-> {}, lst |-> <<>>]

\* A suspended async function. k: "tpl" (handleRouteChange awaiting the template
\* fetch), "recipe" (initRecipeDetailView awaiting the catalog lookup), "preload"
\* (initApp awaiting preloadFeaturedMeals). att: the elements the function captured
\* before its await are still in the document.
\* routed: the function was awaited by handleRouteChange, which catches what it throws.
Task(k, h, key, param, meal, att, routed) ==
    [k |-> k, hash |-> h, key |-> key, param |-> param, meal |-> meal, att |-> att,
     routed |-> routed]

\* appContainer.innerHTML = ...: whatever was mounted leaves the document.
setMount(w, m) ==
    [w EXCEPT !.mount = m,
              !.tasks = [i \in 1..Len(w.tasks) |-> [w.tasks[i] EXCEPT !.att = FALSE]]]

\* window.location.hash = h: a hashchange event is queued when the hash changes
\* and the listener is registered.
setHash(w, h) ==
    IF h = w.hash
    THEN w
    ELSE [w EXCEPT !.hash = h,
                   !.events = IF w.listening THEN @ + 1 ELSE @]

(***************************************************************************)
(* Domain repositories (lines 219-292).                                    *)
(***************************************************************************)
\* A nullable JS value: <<>> is null/undefined, <<v>> is v.
Nothing == <<>>
Just(v) == <<v>>

\* cacheMeals that starts from an empty object instead of the stored cache.
cacheMeals_FromEmpty(w, list) ==
    LET withId == {i \in 1..Len(list) : list[i].id # ""}
        ids == {list[i].id : i \in withId}
        latest(id) == list[CHOOSE i \in withId :
                               /\ list[i].id = id
                               /\ \A j \in withId : list[j].id = id => j <= i]
    IN [w EXCEPT !.meals = [id \in ids |-> latest(id)]]

\* cacheMeals: every recipe of the list that has an id is written under its id,
\* a later one over an earlier one; the rest of the cache is kept.
cacheMeals(w, list) ==
    LET withId == {i \in 1..Len(list) : list[i].id # ""}
        ids == {list[i].id : i \in withId}
        latest(id) == list[CHOOSE i \in withId :
                               /\ list[i].id = id
                               /\ \A j \in withId : list[j].id = id => j <= i]
    IN [w EXCEPT !.meals = [id \in (DOMAIN w.meals) \cup ids |->
                               IF id \in ids THEN latest(id) ELSE w.meals[id]]]

\* persistUser that saves the list and leaves the current-user slot as it was.
persistUser_StalePointer(w, updatedUser) ==
    LET index == FindIndex(w.users, LAMBDA u : u.id = updatedUser.id)
        saved == IF index # 0
                 THEN [w.users EXCEPT ![index] = updatedUser]
                 ELSE Append(w.users, updatedUser)
    IN [w EXCEPT !.users = saved]

\* persistUser with the lookup by id lost: the User is always appended.
persistUser_AlwaysAppends(w, updatedUser) ==
    LET w1 == [w EXCEPT !.users = Append(@, updatedUser)]
    IN IF w1.cur # Null /\ w1.cur.id = updatedUser.id
       THEN [w1 EXCEPT !.cur = updatedUser]
       ELSE w1

\* persistUser: replace the first User with the same id, or append; then refresh
\* the current-user slot when it holds that id.
persistUser(w, updatedUser) ==
    LET index == FindIndex(w.users, LAMBDA u : u.id = updatedUser.id)
        saved == IF index # 0
                 THEN [w.users EXCEPT ![index] = updatedUser]
                 ELSE Append(w.users, updatedUser)
        w1 == [w EXCEPT !.users = saved]
    IN IF w1.cur # Null /\ w1.cur.id = updatedUser.id
       THEN [w1 EXCEPT !.cur = updatedUser]
       ELSE w1

\* removeUser that leaves the session slot alone.
removeUser_KeepsSession(w, userId) ==
    LET remaining == Filter(w.users, LAMBDA user : user.id # userId)
        filteredReviews == Filter(w.reviews, LAMBDA review : review.userId # userId)
    IN [w EXCEPT !.users = remaining, !.reviews = filteredReviews]

\* removeUser without the cascade to the Reviews.
removeUser_KeepsReviews(w, userId) ==
    LET remaining == Filter(w.users, LAMBDA user : user.id # userId)
        w1 == [w EXCEPT !.users = remaining]
    IN IF w1.cur # Null /\ w1.cur.id = userId
       THEN [w1 EXCEPT !.cur = Null]
       ELSE w1

\* removeUser: drop the User, then its Reviews, then the session if it was theirs.
removeUser(w, userId) ==
    LET remaining == Filter(w.users, LAMBDA user : user.id # userId)
        filteredReviews == Filter(w.reviews, LAMBDA review : review.userId # userId)
        w1 == [w EXCEPT !.users = remaining, !.reviews = filteredReviews]
    IN IF w1.cur # Null /\ w1.cur.id = userId
       THEN [w1 EXCEPT !.cur = Null]
       ELSE w1

(***************************************************************************)
(* Catalog gateway (lines 298-387).                                        *)
(***************************************************************************)
\* strIngredient1..20 / strMeasure1..20
Slots == 20

\* A wire record: idMeal, strMeal, and the numbered slots as two sequences of
\* nullable strings (a slot past the end of the sequence is absent).
WireMeal(idMeal, strMeal, ing, meas) ==
    [idMeal |-> idMeal, strMeal |-> strMeal, ing |-> ing, meas |-> meas]

\* normalizeMeal that keeps every slot whose ingredient is present, blank or not.
normalizeMeal_KeepsBlank(meal) ==
    LET ingredient(i) == IF i <= Len(meal.ing) THEN meal.ing[i] ELSE Nothing
        measure(i) == IF i <= Len(meal.meas) THEN meal.meas[i] ELSE Nothing
        kept == SelectSeq([i \in 1..Slots |-> i], LAMBDA i : ingredient(i) # Nothing)
    IN [id |-> meal.idMeal,
        name |-> meal.strMeal,
        ingredients |-> [k \in 1..Len(kept) |->
            [name |-> Trim(ingredient(kept[k])[1]),
             measure |-> IF measure(kept[k]) = Nothing
                         THEN ""
                         ELSE Trim(measure(kept[k])[1])]]]

\* normalizeMeal: the slots whose ingredient is present and not blank, in order,
\* trimmed; an absent measure is "".
normalizeMeal(meal) ==
    LET ingredient(i) == IF i <= Len(meal.ing) THEN meal.ing[i] ELSE Nothing
        measure(i) == IF i <= Len(meal.meas) THEN meal.meas[i] ELSE Nothing
        kept == SelectSeq([i \in 1..Slots |-> i],
                          LAMBDA i : ingredient(i) # Nothing /\ Trim(ingredient(i)[1]) # "")
    IN [id |-> meal.idMeal,
        name |-> meal.strMeal,
        ingredients |-> [k \in 1..Len(kept) |->
            [name |-> Trim(ingredient(kept[k])[1]),
             measure |-> IF measure(kept[k]) = Nothing
                         THEN ""
                         ELSE Trim(measure(kept[k])[1])]]]

\* normalizeMealList
normalizeMealList(rawMeals) == [i \in 1..Len(rawMeals) |-> normalizeMeal(rawMeals[i])]

\* What the catalog may answer to a request: a transport failure or non-success
\* status (ok = FALSE), or a body whose "meals" is a list of wire records (null and
\* the empty list are both <<>>).
Response(ok, wireMeals) == [ok |-> ok, meals |-> wireMeals]

\* fetchMealById after its request came back with a body: the first record,
\* normalized, or null.
fetchMealByIdResult(resp) ==
    IF Len(resp.meals) > 0 THEN Just(normalizeMeal(resp.meals[1])) ELSE Nothing

\* ensureMealInCache up to its await: the cached recipe when there is one.
ensureMealInCacheHit(w, mealId) ==
    IF mealId \in DOMAIN w.meals THEN Just(w.meals[mealId]) ELSE Nothing

\* ensureMealInCache that writes back the cache it read before its await, with
\* the fetched recipe added: what was cached meanwhile is lost. The read found
\* the recipe missing; the cache as it was then is taken to be empty.
ensureMealInCacheResume_WritesSnapshot(w, meal) ==
    IF meal # Nothing THEN [w EXCEPT !.meals = (meal[1].id :> meal[1])] ELSE w

\* ensureMealInCache that returns what it fetched without caching it.
ensureMealInCacheResume_NotCached(w, meal) == w

\* ensureMealInCache after fetchMealById returned meal (nullable): cache it.
ensureMealInCacheResume(w, meal) ==
    IF meal # Nothing THEN cacheMeals(w, <<meal[1]>>) ELSE w

(***************************************************************************)
(* Navbar and session (lines 408-432).                                     *)
(***************************************************************************)
updateNavAuthState(w) ==
    [w EXCEPT !.auth = IF w.cur # Null THEN "logout" ELSE "login"]

handleLogout(w) ==
    setHash(updateNavAuthState([w EXCEPT !.cur = Null]), "#/home")

\* generateId builds the id from a prefix, Date.now() and a random number below
\* 1000. Modelled as a counter: the timestamp has moved on since the previous id
\* was generated, so the id is fresh.
generateId(w) == w.clock + 1

(***************************************************************************)
(* Cookbook helpers (lines 1018-1046).                                     *)
(***************************************************************************)
\* updateCookbook that trusts the caller's shouldAdd and pushes without looking.
updateCookbook_PushUnchecked(w, mealId, shouldAdd) ==
    IF w.cur = Null
    THEN setHash(w, "#/login")
    ELSE LET user == w.cur
             index == FindIndex(user.cookbook, LAMBDA entry : entry.mealId = mealId)
             added == IF shouldAdd
                      THEN Append(user.cookbook, [mealId |-> mealId, note |-> ""])
                      ELSE user.cookbook
             cookbook == IF ~shouldAdd /\ index # 0 THEN RemoveAt(added, index) ELSE added
         IN persistUser(w, [user EXCEPT !.cookbook = cookbook])

updateCookbook(w, mealId, shouldAdd) ==
    IF w.cur = Null
    THEN setHash(w, "#/login")
    ELSE LET user == w.cur
             index == FindIndex(user.cookbook, LAMBDA entry : entry.mealId = mealId)
             added == IF shouldAdd /\ index = 0
                      THEN Append(user.cookbook, [mealId |-> mealId, note |-> ""])
                      ELSE user.cookbook
             cookbook == IF ~shouldAdd /\ index # 0 THEN RemoveAt(added, index) ELSE added
         IN persistUser(w, [user EXCEPT !.cookbook = cookbook])

updateCookbookNote(w, mealId, note) ==
    IF w.cur = Null
    THEN w
    ELSE LET user == w.cur
             index == FindIndex(user.cookbook, LAMBDA entry : entry.mealId = mealId)
         IN IF index = 0
            THEN w
            ELSE persistUser(w, [user EXCEPT !.cookbook[index].note = note])

(***************************************************************************)
(* Reviews (lines 974-1011).                                               *)
(***************************************************************************)
DigitValue(c) ==
    CASE c = "0" -> 0 [] c = "1" -> 1 [] c = "2" -> 2 [] c = "3" -> 3 [] c = "4" -> 4
      [] c = "5" -> 5 [] c = "6" -> 6 [] c = "7" -> 7 [] c = "8" -> 8 [] c = "9" -> 9

RECURSIVE ParseDigits(_, _)
ParseDigits(s, acc) ==
    IF Len(s) = 0
    THEN acc
    ELSE ParseDigits(SubSeq(s, 2, Len(s)), acc * 10 + DigitValue(SubSeq(s, 1, 1)))

\* Number(value) of an <input type="number">, whose value is "" or the text of a
\* number (here: of an integer).
Number(s) ==
    IF s = "" THEN 0
    ELSE IF SubSeq(s, 1, 1) = "-" THEN 0 - ParseDigits(SubSeq(s, 2, Len(s)), 0)
    ELSE ParseDigits(s, 0)

\* The fields of #reviewForm as the submit handler reads them.
ReviewForm(date, difficulty, taste, comment) ==
    [date |-> date, difficulty |-> difficulty, taste |-> taste, comment |-> comment]

\* handleReviewSubmit that looks the existing Review up by recipe alone.
handleReviewSubmit_AnyAuthor(w, mealId, form) ==
    IF w.cur = Null
    THEN setHash(w, "#/login")
    ELSE LET user == w.cur
             dataPreparazione == form.date
             difficolta == Number(form.difficulty)
             gusto == Number(form.taste)
             commento == Trim(form.comment)
             existingIndex == FindIndex(w.reviews,
                 LAMBDA review : review.recipeId = mealId)
             payload == [id |-> IF existingIndex # 0
                                THEN w.reviews[existingIndex].id
                                ELSE generateId(w),
                         recipeId |-> mealId,
                         userId |-> user.id,
                         dataPreparazione |-> dataPreparazione,
                         difficolta |-> difficolta,
                         gusto |-> gusto,
                         commento |-> commento]
         IN IF dataPreparazione = "" \/ difficolta < 1 \/ gusto < 1
            THEN w
            ELSE IF existingIndex # 0
                 THEN [w EXCEPT !.reviews[existingIndex] = payload]
                 ELSE [w EXCEPT !.reviews = Append(@, payload), !.clock = @ + 1]

handleReviewSubmit(w, mealId, form) ==
    IF w.cur = Null
    THEN setHash(w, "#/login")
    ELSE LET user == w.cur
             dataPreparazione == form.date
             difficolta == Number(form.difficulty)
             gusto == Number(form.taste)
             commento == Trim(form.comment)
             existingIndex == FindIndex(w.reviews,
                 LAMBDA review : review.recipeId = mealId /\ review.userId = user.id)
             payload == [id |-> IF existingIndex # 0
                                THEN w.reviews[existingIndex].id
                                ELSE generateId(w),
                         recipeId |-> mealId,
                         userId |-> user.id,
                         dataPreparazione |-> dataPreparazione,
                         difficolta |-> difficolta,
                         gusto |-> gusto,
                         commento |-> commento]
         IN IF dataPreparazione = "" \/ difficolta < 1 \/ gusto < 1
            THEN w
            ELSE IF existingIndex # 0
                 THEN [w EXCEPT !.reviews[existingIndex] = payload]
                 ELSE [w EXCEPT !.reviews = Append(@, payload), !.clock = @ + 1]

(***************************************************************************)
(* View controllers (lines 456-904). A controller returns the world it     *)
(* leaves and how it ended: "done", "throw" (an exception left it) or      *)
(* "pending" (it is suspended at an await on the network).                 *)
(***************************************************************************)
Done(w) == [w |-> w, out |-> "done"]
Throw(w) == [w |-> w, out |-> "throw"]
Pending(w) == [w |-> w, out |-> "pending"]

initHomeView(w) == w

\* initLoginView that sends a visitor without a session on to the profile.
initLoginView_BackToProfile(w) ==
    IF w.cur = Null THEN setHash(w, "#/profile") ELSE [w EXCEPT !.mount.armed = TRUE]

initLoginView(w) ==
    IF w.cur # Null THEN setHash(w, "#/home") ELSE [w EXCEPT !.mount.armed = TRUE]

initRegisterView(w) ==
    IF w.cur # Null THEN setHash(w, "#/home") ELSE [w EXCEPT !.mount.armed = TRUE]

initProfileView(w) ==
    IF w.cur = Null
    THEN setHash(w, "#/login")
    ELSE [w EXCEPT !.mount.armed = TRUE, !.mount.user = w.cur]

initSearchView(w) == [w EXCEPT !.mount.armed = TRUE]

\* initCookbookView: one card per cookbook entry whose recipe resolves. Every
\* ensureMealInCache it makes is for a recipe the detail view cached before the
\* entry could be added; a call that misses the cache leaves the view suspended.
initCookbookView(w, routed, h) ==
    IF w.cur = Null
    THEN Done(setHash(w, "#/login"))
    ELSE LET user == w.cur
             wanted == {user.cookbook[i].mealId : i \in 1..Len(user.cookbook)}
             w1 == [w EXCEPT !.mount.stage = "loading", !.mount.cards = {}]
         IN IF wanted \subseteq DOMAIN w.meals
            THEN Done([w1 EXCEPT !.mount.stage = IF wanted = {} THEN "empty" ELSE "full",
                                 !.mount.cards = wanted])
            ELSE Pending([w1 EXCEPT !.tasks =
                     Append(@, Task("cookbook", h, "#/cookbook", NoParam, "", TRUE, routed))])

\* initReviewsView: the current user's reviews, each with its recipe.
initReviewsView(w, routed, h) ==
    IF w.cur = Null
    THEN Done(setHash(w, "#/login"))
    ELSE LET user == w.cur
             mine == Filter(w.reviews, LAMBDA review : review.userId = user.id)
             wanted == {mine[i].recipeId : i \in 1..Len(mine)}
         IN IF mine = <<>>
            THEN Done([w EXCEPT !.mount.stage = "empty"])
            ELSE IF wanted \subseteq DOMAIN w.meals
                 THEN Done([w EXCEPT !.mount.stage = "full"])
                 ELSE Pending([w EXCEPT !.tasks =
                          Append(@, Task("reviews", h, "#/reviews", NoParam, "", TRUE, routed))])

\* initRecipeDetailView from line 818 on, once the recipe is there. att: #recipeDetail,
\* captured before the await, is still in the document. When it is not, the markup
\* written into it is lost and getElementById looks in whatever is mounted now: it
\* finds #cookbookToggleBtn and #reviewsContainer only in a fully rendered detail view.
renderRecipeDetail(w, meal, att) ==
    LET user == w.cur
        inCookbook == /\ user # Null
                      /\ \E i \in 1..Len(user.cookbook) : user.cookbook[i].mealId = meal.id
        closure == [meal |-> meal.id, inCookbook |-> inCookbook]
        full == w.mount.view = "recipe" /\ w.mount.stage = "full"
    IN IF att
       THEN Done([w EXCEPT !.mount.stage = "full",
                           !.mount.meal = meal.id,
                           !.mount.lst = IF user # Null THEN <<closure>> ELSE <<>>])
       ELSE IF user # Null
            THEN IF full /\ w.mount.lst # <<>>
                 THEN Done([w EXCEPT !.mount.lst = Append(@, closure)])
                 ELSE Throw(w)
            ELSE IF full THEN Done(w) ELSE Throw(w)

\* initRecipeDetailView up to its await (lines 805-813).
initRecipeDetailView(w, mealId, routed, h) ==
    IF mealId = Nothing \/ mealId[1] = ""
    THEN Done([w EXCEPT !.mount.stage = "missing", !.mount.lst = <<>>])
    ELSE LET w1 == [w EXCEPT !.mount.stage = "loading", !.mount.lst = <<>>]
             cached == ensureMealInCacheHit(w1, mealId[1])
         IN IF cached # Nothing
            THEN renderRecipeDetail(w1, cached[1], TRUE)
            ELSE Pending([w1 EXCEPT !.tasks =
                     Append(@, Task("recipe", h, "#/recipe", mealId, mealId[1], TRUE, routed))])

(***************************************************************************)
(* Router (lines 61-160).                                                  *)
(***************************************************************************)
\* renderNotFound that also records the unmatched location as the active one.
renderNotFound_RecordsRoute(w) ==
    [setMount(w, FreshMount("notfound")) EXCEPT !.active = w.hash]

renderNotFound(w) == setMount(w, FreshMount("notfound"))

\* A catch block that logs the error and renders nothing.
renderRouteError_LogOnly(w) == w

renderRouteError(w) == setMount(w, FreshMount("error"))

\* routeConfig.onLoad(dynamicParam)
onLoad(w, view, dynamicParam, h) ==
    CASE view = "home" -> Done(initHomeView(w))
      [] view = "login" -> Done(initLoginView(w))
      [] view = "register" -> Done(initRegisterView(w))
      [] view = "profile" -> Done(initProfileView(w))
      [] view = "search" -> Done(initSearchView(w))
      [] view = "cookbook" -> initCookbookView(w, TRUE, h)
      [] view = "reviews" -> initReviewsView(w, TRUE, h)
      [] view = "recipe" -> initRecipeDetailView(w, dynamicParam, TRUE, h)

\* Lines 111-119, once the awaited controller r has ended: refresh the navbar, or
\* render the error page for what it threw.
finishRoute(r, h) ==
    CASE r.out = "done" -> updateNavAuthState([r.w EXCEPT !.navT = h])
      [] r.out = "throw" -> renderRouteError(r.w)
      [] r.out = "pending" -> r.w

\* Lines 102-114: the fragment is there; inject it and run the controller.
afterFragment(w, routeKey, h, dynamicParam) ==
    LET routeConfig == ROUTES[routeKey]
        w1 == setMount(w, FreshMount(routeConfig.view))
    IN finishRoute(onLoad(w1, routeConfig.view, dynamicParam, h), h)

\* handleRouteChange that takes all that follows "#/recipe/" as the parameter.
handleRouteChange_WholeRest(w) ==
    LET given == IF w.hash = "" THEN "#/home" ELSE w.hash
        h == IF ~StartsWith(given, "#/") THEN "#/home" ELSE given
        dynamic == StartsWith(h, "#/recipe/")
        routeKey == IF dynamic THEN "#/recipe" ELSE h
        dynamicParam == IF dynamic THEN Just(SubSeq(h, 10, Len(h))) ELSE Nothing
    IN IF routeKey \notin DOMAIN ROUTES
       THEN renderNotFound(w)
       ELSE IF ROUTES[routeKey].auth /\ w.cur = Null
            THEN setHash(w, "#/login")
            ELSE LET w1 == [w EXCEPT !.active = h]
                     path == ROUTES[routeKey].template
                 IN IF path \in DOMAIN w1.frags
                    THEN afterFragment(w1, routeKey, h, dynamicParam)
                    ELSE [w1 EXCEPT !.tasks =
                             Append(@, Task("tpl", h, routeKey, dynamicParam, "", FALSE, TRUE))]

\* handleRouteChange that looks the raw location up, without the default.
handleRouteChange_Raw(w) ==
    LET h == w.hash
        dynamic == StartsWith(h, "#/recipe/")
        routeKey == IF dynamic THEN "#/recipe" ELSE h
        dynamicParam == IF dynamic THEN Just(UpToSlash(SubSeq(h, 10, Len(h)))) ELSE Nothing
    IN IF routeKey \notin DOMAIN ROUTES
       THEN renderNotFound(w)
       ELSE IF ROUTES[routeKey].auth /\ w.cur = Null
            THEN setHash(w, "#/login")
            ELSE LET w1 == [w EXCEPT !.active = h]
                     path == ROUTES[routeKey].template
                 IN IF path \in DOMAIN w1.frags
                    THEN afterFragment(w1, routeKey, h, dynamicParam)
                    ELSE [w1 EXCEPT !.tasks =
                             Append(@, Task("tpl", h, routeKey, dynamicParam, "", FALSE, TRUE))]

\* handleRouteChange without the check of routeConfig.auth.
handleRouteChange_Unguarded(w) ==
    LET given == IF w.hash = "" THEN "#/home" ELSE w.hash
        h == IF ~StartsWith(given, "#/") THEN "#/home" ELSE given
        dynamic == StartsWith(h, "#/recipe/")
        routeKey == IF dynamic THEN "#/recipe" ELSE h
        dynamicParam == IF dynamic THEN Just(UpToSlash(SubSeq(h, 10, Len(h)))) ELSE Nothing
    IN IF routeKey \notin DOMAIN ROUTES
       THEN renderNotFound(w)
       ELSE LET w1 == [w EXCEPT !.active = h]
                path == ROUTES[routeKey].template
            IN IF path \in DOMAIN w1.frags
               THEN afterFragment(w1, routeKey, h, dynamicParam)
               ELSE [w1 EXCEPT !.tasks =
                        Append(@, Task("tpl", h, routeKey, dynamicParam, "", FALSE, TRUE))]

\* handleRouteChange up to the await of loadFragment; a cached fragment needs no
\* fetch and the transition goes on at once.
handleRouteChange(w) ==
    LET given == IF w.hash = "" THEN "#/home" ELSE w.hash
        h == IF ~StartsWith(given, "#/") THEN "#/home" ELSE given
        dynamic == StartsWith(h, "#/recipe/")
        routeKey == IF dynamic THEN "#/recipe" ELSE h
        dynamicParam == IF dynamic THEN Just(UpToSlash(SubSeq(h, 10, Len(h)))) ELSE Nothing
    IN IF routeKey \notin DOMAIN ROUTES
       THEN renderNotFound(w)
       ELSE IF ROUTES[routeKey].auth /\ w.cur = Null
            THEN setHash(w, "#/login")
            ELSE LET w1 == [w EXCEPT !.active = h]
                     path == ROUTES[routeKey].template
                 IN IF path \in DOMAIN w1.frags
                    THEN afterFragment(w1, routeKey, h, dynamicParam)
                    ELSE [w1 EXCEPT !.tasks =
                             Append(@, Task("tpl", h, routeKey, dynamicParam, "", FALSE, TRUE))]

\* The text the server holds for a template.
Html(path) == "<" \o path \o ">"

\* What a template fetch ends with: response.ok and the body text.
TemplateResult(ok, text) == [ok |-> ok, text |-> text]

\* handleRouteChange that gives up after its fetch when the location it was
\* started for is no longer the active one.
loadFragmentResume_DropsStale(w, t, resp) ==
    IF t.hash # w.active
    THEN w
    ELSE IF ~resp.ok
    THEN renderRouteError(w)
    ELSE LET path == ROUTES[t.key].template
             w1 == [w EXCEPT !.frags = (path :> resp.text) @@ @]
         IN afterFragment(w1, t.key, t.hash, t.param)

\* loadFragment after its fetch, and the rest of handleRouteChange: a failed fetch
\* throws; a fetched fragment is stored under its path, injected, and the
\* controller runs.
loadFragmentResume(w, t, resp) ==
    IF ~resp.ok
    THEN renderRouteError(w)
    ELSE LET path == ROUTES[t.key].template
             w1 == [w EXCEPT !.frags = (path :> resp.text) @@ @]
         IN afterFragment(w1, t.key, t.hash, t.param)

\* The same, when the server holds one text for each template.
templateResponse(w, t, ok) ==
    loadFragmentResume(w, t, TemplateResult(ok, Html(ROUTES[t.key].template)))

\* The resumption that takes an answer without a recipe for a failure and throws.
recipeResponse_ThrowsOnMissing(w, t, resp) ==
    IF ~resp.ok
    THEN IF t.routed THEN renderRouteError(w) ELSE w
    ELSE LET meal == fetchMealByIdResult(resp)
             w1 == ensureMealInCacheResume(w, meal)
             r == IF meal = Nothing
                  THEN Throw(w1)
                  ELSE renderRecipeDetail(w1, meal[1], t.att)
         IN IF t.routed THEN finishRoute(r, t.hash) ELSE r.w

\* ensureMealInCache and initRecipeDetailView after the catalog answered resp.
recipeResponse(w, t, resp) ==
    IF ~resp.ok
    THEN IF t.routed THEN renderRouteError(w) ELSE w
    ELSE LET meal == fetchMealByIdResult(resp)
             w1 == ensureMealInCacheResume(w, meal)
             r == IF meal = Nothing
                  THEN Done(IF t.att THEN [w1 EXCEPT !.mount.stage = "missing"] ELSE w1)
                  ELSE renderRecipeDetail(w1, meal[1], t.att)
         IN IF t.routed THEN finishRoute(r, t.hash) ELSE r.w

(***************************************************************************)
(* Form and button handlers.                                               *)
(***************************************************************************)
MinPasswordLength == 6

RegisterForm(username, email, password, confirmPassword, favorites) ==
    [username |-> username, email |-> email, password |-> password,
     confirmPassword |-> confirmPassword, favorites |-> favorites]

\* registerSubmit that stores the new User and forgets setCurrentUser.
registerSubmit_NoSession(w, form) ==
    LET username == Trim(form.username)
        email == Trim(form.email)
        password == Trim(form.password)
        confirmPassword == Trim(form.confirmPassword)
        favorites == Trim(form.favorites)
        alreadyExists == \E i \in 1..Len(w.users) :
                            w.users[i].username = username \/ w.users[i].email = email
        newUser == [id |-> generateId(w), username |-> username, email |-> email,
                    password |-> password, favorites |-> favorites, cookbook |-> <<>>]
    IN IF username = "" \/ email = "" \/ password = "" THEN w
       ELSE IF Len(password) < MinPasswordLength THEN w
       ELSE IF password # confirmPassword THEN w
       ELSE IF alreadyExists THEN w
       ELSE setHash(updateNavAuthState([w EXCEPT !.users = Append(@, newUser),
                                                 !.clock = @ + 1]),
                    "#/profile")

\* registerSubmit that checks the username for uniqueness and not the email.
registerSubmit_EmailUnchecked(w, form) ==
    LET username == Trim(form.username)
        email == Trim(form.email)
        password == Trim(form.password)
        confirmPassword == Trim(form.confirmPassword)
        favorites == Trim(form.favorites)
        alreadyExists == \E i \in 1..Len(w.users) : w.users[i].username = username
        newUser == [id |-> generateId(w), username |-> username, email |-> email,
                    password |-> password, favorites |-> favorites, cookbook |-> <<>>]
    IN IF username = "" \/ email = "" \/ password = "" THEN w
       ELSE IF Len(password) < MinPasswordLength THEN w
       ELSE IF password # confirmPassword THEN w
       ELSE IF alreadyExists THEN w
       ELSE setHash(updateNavAuthState([w EXCEPT !.users = Append(@, newUser),
                                                 !.cur = newUser,
                                                 !.clock = @ + 1]),
                    "#/profile")

\* The submit listener of #registerForm (lines 498-541).
registerSubmit(w, form) ==
    LET username == Trim(form.username)
        email == Trim(form.email)
        password == Trim(form.password)
        confirmPassword == Trim(form.confirmPassword)
        favorites == Trim(form.favorites)
        alreadyExists == \E i \in 1..Len(w.users) :
                            w.users[i].username = username \/ w.users[i].email = email
        newUser == [id |-> generateId(w), username |-> username, email |-> email,
                    password |-> password, favorites |-> favorites, cookbook |-> <<>>]
    IN IF username = "" \/ email = "" \/ password = "" THEN w
       ELSE IF Len(password) < MinPasswordLength THEN w
       ELSE IF password # confirmPassword THEN w
       ELSE IF alreadyExists THEN w
       ELSE setHash(updateNavAuthState([w EXCEPT !.users = Append(@, newUser),
                                                 !.cur = newUser,
                                                 !.clock = @ + 1]),
                    "#/profile")

\* The login listener that looks the identifier up and never compares passwords.
loginSubmit_AnyPassword(w, loginIdentifier, loginPassword) ==
    LET identifier == Trim(loginIdentifier)
        found == FindIndex(w.users,
                     LAMBDA u : u.username = identifier \/ u.email = identifier)
    IN IF found = 0
       THEN w
       ELSE setHash(updateNavAuthState([w EXCEPT !.cur = w.users[found]]), "#/home")

\* The submit listener of #loginForm (lines 470-486).
loginSubmit(w, loginIdentifier, loginPassword) ==
    LET identifier == Trim(loginIdentifier)
        password == Trim(loginPassword)
        found == FindIndex(w.users,
                     LAMBDA u : (u.username = identifier \/ u.email = identifier)
                                /\ u.password = password)
    IN IF found = 0
       THEN w
       ELSE setHash(updateNavAuthState([w EXCEPT !.cur = w.users[found]]), "#/home")

\* The submit listener of #profileForm (lines 563-576); user is the User that
\* initProfileView captured.
profileSubmit(w, profileEmail, profileFavorites) ==
    LET user == w.mount.user
        email == Trim(profileEmail)
        favorites == Trim(profileFavorites)
    IN IF email = ""
       THEN w
       ELSE persistUser(w, [user EXCEPT !.email = email, !.favorites = favorites])

\* The click listener of #deleteProfileBtn, confirmed (lines 581-587).
profileDelete(w) ==
    setHash(updateNavAuthState(removeUser(w, w.mount.user.id)), "#/home")

\* A click on #cookbookToggleBtn runs its listeners in the order they were added;
\* each re-renders the detail view, which completes before the next one runs.
RECURSIVE toggleClick(_, _)
toggleClick(w, listeners) ==
    IF listeners = <<>>
    THEN w
    ELSE LET c == Head(listeners)
             w1 == updateCookbook(w, c.meal, ~c.inCookbook)
             w2 == initRecipeDetailView(w1, Just(c.meal), FALSE, "").w
         IN toggleClick(w2, Tail(listeners))

\* A change of #cookbookNote (lines 889-892).
RECURSIVE noteChange(_, _, _)
noteChange(w, listeners, value) ==
    IF listeners = <<>>
    THEN w
    ELSE noteChange(updateCookbookNote(w, Head(listeners).meal, value),
                    Tail(listeners), value)

\* A submit of #reviewForm (lines 894-898).
RECURSIVE reviewSubmit(_, _, _)
reviewSubmit(w, listeners, form) ==
    IF listeners = <<>>
    THEN w
    ELSE reviewSubmit(handleReviewSubmit(w, Head(listeners).meal, form),
                      Tail(listeners), form)

\* A click on a card's remove button in the cookbook view (lines 712-719).
cookbookRemove(w, mealId) ==
    initCookbookView(updateCookbook(w, mealId, FALSE), FALSE, "").w

(***************************************************************************)
(* The catalog, as far as the application can tell: it knows some recipe   *)
(* ids, may hold a different revision of a recipe each time it is asked,   *)
(* and any request may fail.                                               *)
(***************************************************************************)
CatalogIds == {"m1", "m2"}

CatalogWire(id, revision) ==
    WireMeal(id, revision, <<Just("Flour "), Just(" ")>>, <<Just("200g")>>)

LookupResponses(id, revisions) ==
    {Response(FALSE, <<>>)}
    \cup (IF id \in CatalogIds
          THEN {Response(TRUE, <<CatalogWire(id, r)>>) : r \in revisions}
          ELSE {Response(TRUE, <<>>)})

(***************************************************************************)
(* Actions: one per event the browser delivers.                            *)
(***************************************************************************)
\* The step to world w, taken by handler op.
Act(w, op) ==
    /\ Len(w.users) <= MaxUsers
    /\ w.clock <= MaxIds
    /\ Commit(w)
    /\ last' = op
    /\ UNCHANGED ensureLog

\* The user acts only while fewer than MaxInFlight transitions are under way.
UserCanAct == hashEvents + Len(tasks) < MaxInFlight

\* The user follows a link or edits the address bar.
Navigate(h) ==
    /\ UserCanAct
    /\ h # hash
    /\ Act(setHash(World, h), "navigate")

\* A hashchange event (or initApp's own first call) runs handleRouteChange.
DeliverHashChange ==
    /\ listening
    /\ hashEvents > 0
    /\ Act(handleRouteChange([World EXCEPT !.events = @ - 1]), "route")

\* The fetch of a template ends.
TemplateResponse(i, ok) ==
    /\ tasks[i].k = "tpl"
    /\ Act(templateResponse([World EXCEPT !.tasks = RemoveAt(@, i)], tasks[i], ok),
           "template")

\* The texts the server may hold for a template over time: the file is replaced
\* by a new deployment while the page stays open.
TemplateTexts(path) == {Html(path), Html(path) \o "<!-- 2 -->"}

\* The results a template fetch can end with.
TemplateResults(path) ==
    {TemplateResult(FALSE, "")} \cup {TemplateResult(TRUE, x) : x \in TemplateTexts(path)}

\* The fetch of a template ends, the server holding any of the texts.
TemplateLoaded(i, resp) ==
    /\ tasks[i].k = "tpl"
    /\ Act(loadFragmentResume([World EXCEPT !.tasks = RemoveAt(@, i)], tasks[i], resp),
           "template")

\* The catalog answers the lookup of a suspended detail view.
RecipeResponse(i, resp) ==
    /\ tasks[i].k = "recipe"
    /\ Act(recipeResponse([World EXCEPT !.tasks = RemoveAt(@, i)], tasks[i], resp),
           "recipe")

RegisterSubmit(form) ==
    /\ UserCanAct
    /\ mount.view = "register" /\ mount.armed
    /\ Act(registerSubmit(World, form), "register")

LoginSubmit(identifier, password) ==
    /\ UserCanAct
    /\ mount.view = "login" /\ mount.armed
    /\ Act(loginSubmit(World, identifier, password), "login")

\* A click on the navbar's auth link while it reads "Logout" (lines 397-403).
NavLogout ==
    /\ UserCanAct
    /\ authAction = "logout"
    /\ Act(handleLogout(World), "logout")

ProfileSubmit(email, favorites) ==
    /\ UserCanAct
    /\ mount.view = "profile" /\ mount.armed
    /\ Act(profileSubmit(World, email, favorites), "profile")

ProfileLogout ==
    /\ UserCanAct
    /\ mount.view = "profile" /\ mount.armed
    /\ Act(handleLogout(World), "logout")

ProfileDelete ==
    /\ UserCanAct
    /\ mount.view = "profile" /\ mount.armed
    /\ Act(profileDelete(World), "delete")

ToggleCookbook ==
    /\ UserCanAct
    /\ mount.view = "recipe" /\ mount.stage = "full" /\ mount.lst # <<>>
    /\ Act(toggleClick(World, mount.lst),
           IF \E i, j \in 1..Len(mount.lst) : i # j /\ mount.lst[i].meal = mount.lst[j].meal
           THEN "toggle twice"
           ELSE "toggle")

\* The note field is enabled when the view was rendered with the recipe in the cookbook.
NoteChange(value) ==
    /\ UserCanAct
    /\ mount.view = "recipe" /\ mount.stage = "full" /\ mount.lst # <<>>
    /\ mount.lst[1].inCookbook
    /\ Act(noteChange(World, mount.lst, value), "note")

ReviewSubmit(form) ==
    /\ UserCanAct
    /\ mount.view = "recipe" /\ mount.stage = "full" /\ mount.lst # <<>>
    /\ Act(reviewSubmit(World, mount.lst, form), "review")

CookbookRemove(mealId) ==
    /\ UserCanAct
    /\ mount.view = "cookbook" /\ mealId \in mount.cards
    /\ Act(cookbookRemove(World, mealId), "remove")

CookbookNote(mealId, value) ==
    /\ UserCanAct
    /\ mount.view = "cookbook" /\ mealId \in mount.cards
    /\ Act(updateCookbookNote(World, mealId, value), "cardnote")

(***************************************************************************)
(* Page load. localStorage holds what earlier visits left in it; the page  *)
(* starts with nothing mounted and no template cached. With recipes in the *)
(* cache preloadFeaturedMeals returns at once and initApp goes on to its   *)
(* first handleRouteChange; with an empty cache it awaits the catalog.     *)
(***************************************************************************)
MaxId(seq) == IF seq = <<>> THEN 0 ELSE CHOOSE n \in {seq[i].id : i \in 1..Len(seq)} :
                                          \A i \in 1..Len(seq) : seq[i].id <= n

PageLoad(storedUsers, storedCurrent, storedReviews, storedMeals, location) ==
    /\ users = storedUsers
    /\ currentUser = storedCurrent
    /\ reviews = storedReviews
    /\ meals = storedMeals
    /\ fragmentsCache = <<>>
    /\ activeRoute = "#/home"
    /\ hash = location
    /\ mount = FreshMount("blank")
    /\ navTarget = ""
    /\ authAction = IF storedCurrent # Null THEN "logout" ELSE "login"
    /\ clock = IF MaxId(storedUsers) > MaxId(storedReviews)
               THEN MaxId(storedUsers) ELSE MaxId(storedReviews)
    /\ searchResults = <<>>
    /\ ensureLog = <<>>
    /\ last = "load"
    /\ IF DOMAIN storedMeals = {}
       THEN /\ tasks = <<Task("preload", "", "", Nothing, "", FALSE, FALSE)>>
            /\ listening = FALSE
            /\ hashEvents = 0
       ELSE /\ tasks = <<>>
            /\ listening = TRUE
            /\ hashEvents = 1

StoredUser(id, username, email, password, cookbook) ==
    [id |-> id, username |-> username, email |-> email, password |-> password,
     favorites |-> "", cookbook |-> cookbook]

StoredReview(id, recipeId, userId, commento) ==
    [id |-> id, recipeId |-> recipeId, userId |-> userId,
     dataPreparazione |-> "2024-05-01", difficolta |-> 3, gusto |-> 4,
     commento |-> commento]

Ann == StoredUser(1, "ann", "a@x", "secret", <<>>)
Bob == StoredUser(2, "bob", "b@x", "secret", <<>>)

Preloaded == "m1" :> normalizeMeal(CatalogWire("m1", "v1"))

(***************************************************************************)
(* Accounts: registration, login, logout, profile update and deletion.     *)
(***************************************************************************)
AccountLocations == {"#/login", "#/register", "#/profile"}
Usernames == {"", "ann", " bob"}
Emails == {"", "a@x", "b@x "}
Passwords == {"", "short", " secret"}
WrongPasswords == {"secret7"}

\* Registration forms: every pairing of the two names and the two addresses with
\* a good password, and one form for each way of failing a validation.
RegisterForms ==
    {RegisterForm(u, e, " secret", "secret ", "") :
        u \in Usernames \ {""}, e \in Emails \ {""}}
    \cup {RegisterForm("", "b@x ", " secret", " secret", ""),
          RegisterForm(" bob", "", " secret", " secret", ""),
          RegisterForm(" bob", "b@x ", "", "", ""),
          RegisterForm(" bob", "b@x ", "short", "short", ""),
          RegisterForm(" bob", "b@x ", " secret", "short", "")}

\* What earlier visits may have left in localStorage: users, session, reviews.
AccountStores ==
    {<<stored, current, <<>>>> :
        stored \in {<<>>, <<Ann>>}, current \in {Null, Ann}}
    \cup {<<(<<Ann, Bob>>), current,
            <<StoredReview(1, "m1", 1, ""), StoredReview(2, "m1", 2, ""),
              StoredReview(3, "m2", 1, "")>> >> : current \in {Null, Ann, Bob}}

InitAccounts ==
    \E store \in AccountStores, location \in {"", "#/profile"} :
        /\ store[2] # Null => store[1] # <<>>
        /\ PageLoad(store[1], store[2], store[3], Preloaded, location)

NextAccounts ==
    \/ \E h \in AccountLocations : Navigate(h)
    \/ DeliverHashChange
    \/ \E i \in 1..Len(tasks), ok \in BOOLEAN : TemplateResponse(i, ok)
    \/ \E form \in RegisterForms : RegisterSubmit(form)
    \/ \E i \in Usernames \cup Emails, p \in Passwords \cup WrongPasswords : LoginSubmit(i, p)
    \/ NavLogout
    \/ \E e \in Emails : ProfileSubmit(e, "")
    \/ ProfileLogout
    \/ ProfileDelete

SpecAccounts == InitAccounts /\ [][NextAccounts]_vars

(***************************************************************************)
(* Properties of the accounts.                                             *)
(***************************************************************************)
\* new is old without the elements that are Gone, the others in their order.
IsOrderedRemoval(old, new, Gone(_)) ==
    LET keep == {i \in 1..Len(old) : ~Gone(old[i])}
        nth(k) == CHOOSE i \in keep : Cardinality({j \in keep : j <= i}) = k
    IN /\ Len(new) = Cardinality(keep)
       /\ \A k \in 1..Len(new) : new[k] = old[nth(k)]

\* The registration the handler accepts, on the values it reads (trimmed).
AcceptableRegistration(form) ==
    /\ Trim(form.username) # ""
    /\ Trim(form.email) # ""
    /\ Len(Trim(form.password)) >= 6
    /\ Trim(form.password) = Trim(form.confirmPassword)
    /\ \A i \in 1..Len(users) :
          /\ users[i].username # Trim(form.username)
          /\ users[i].email # Trim(form.email)

\* C2: no two stored Users share a username and no two share an email.
C2_UniqueUsernamesAndEmails ==
    \A i, j \in 1..Len(users) :
        i # j => /\ users[i].username # users[j].username
                 /\ users[i].email # users[j].email

\* C3: removeUser(id) removes exactly the User with that id and the Reviews with
\* that userId, keeps every other User and Review in order, leaves the recipe
\* cache alone, and empties the current-user slot iff it held that id.
C3_RemoveUserCascades ==
    [][(last' = "delete" /\ ProfileDelete) =>
         LET id == mount.user.id
         IN /\ IsOrderedRemoval(users, users', LAMBDA u : u.id = id)
            /\ IsOrderedRemoval(reviews, reviews', LAMBDA r : r.userId = id)
            /\ meals' = meals
            /\ currentUser' = IF currentUser # Null /\ currentUser.id = id
                              THEN Null
                              ELSE currentUser]_vars

\* Ann deleted her profile while logged in: she and her two reviews are gone,
\* Bob and his review are left.
C3_Witness ==
    /\ last = "delete"
    /\ users = <<Bob>>
    /\ reviews = <<StoredReview(2, "m1", 2, "")>>
    /\ currentUser = Null

\* C4: persistUser(u) replaces in place the entry with u's id when there is one
\* (same length, the others untouched) and appends u otherwise; either way exactly
\* one stored User has that id afterwards and it is u, so a second call with the
\* same id replaces again and the length stays.
C4_PersistUserUpserts ==
    [][\A e \in Emails :
         (last' = "profile" /\ Trim(e) # "" /\ ProfileSubmit(e, "")) =>
            LET u == [mount.user EXCEPT !.email = Trim(e), !.favorites = ""]
                at == {i \in 1..Len(users) : users[i].id = u.id}
            IN /\ at # {} =>
                    /\ Len(users') = Len(users)
                    /\ \A i \in 1..Len(users) :
                          users'[i] = IF i \in at /\ \A j \in at : i <= j
                                      THEN u
                                      ELSE users[i]
               /\ at = {} => users' = Append(users, u)
               /\ Cardinality({i \in 1..Len(users') : users'[i].id = u.id}) = 1
               /\ \E i \in 1..Len(users') : users'[i] = u]_vars

\* A profile update replaced the stored User in place: the stored entry differs
\* from the one the view captured, and the other User is still there.
C4_Witness ==
    /\ last = "profile"
    /\ Len(users) = 2
    /\ mount.view = "profile"
    /\ \E i \in 1..2 : users[i].id = mount.user.id /\ users[i].email # mount.user.email

C8_RejectedRegistrationChangesNothing ==
    [][\A form \in RegisterForms :
         (last' = "register" /\ ~AcceptableRegistration(form) /\ RegisterSubmit(form)) =>
            UNCHANGED <<users, reviews, meals, currentUser, hash>>]_vars

\* A registration was refused next to a stored User: nobody is logged in and the
\* register form is still there.
C8_Witness ==
    /\ last = "register"
    /\ mount.view = "register" /\ mount.armed
    /\ users = <<Ann>>
    /\ currentUser = Null
    /\ hash = "#/register"

(***************************************************************************)
(* The cookbook: the detail view's toggle and note, the cookbook view.     *)
(***************************************************************************)
CookbookLocations == {"#/recipe/m1", "#/recipe/m2", "#/cookbook"}
Notes == {"salt"}

Entry(mealId, note) == [mealId |-> mealId, note |-> note]

\* What earlier visits may have left in localStorage: Ann, logged in, with or
\* without a recipe in her cookbook.
CookbookStores ==
    {StoredUser(1, "ann", "a@x", "secret", cookbook) :
        cookbook \in {<<>>, <<Entry("m1", "")>>}}

InitCookbook ==
    \E ann \in CookbookStores, location \in {"#/recipe/m1", "#/recipe/m2"} :
        PageLoad(<<ann, Bob>>, ann, <<>>, Preloaded, location)

NextCookbook ==
    \/ \E h \in CookbookLocations : Navigate(h)
    \/ DeliverHashChange
    \/ \E i \in 1..Len(tasks), ok \in BOOLEAN : TemplateResponse(i, ok)
    \/ \E i \in 1..Len(tasks) :
          \E resp \in LookupResponses(tasks[i].meal, {"v1"}) : RecipeResponse(i, resp)
    \/ NavLogout
    \/ ToggleCookbook
    \/ \E value \in Notes : NoteChange(value)
    \/ \E mealId \in CatalogIds : CookbookRemove(mealId)
    \/ \E mealId \in CatalogIds, value \in Notes : CookbookNote(mealId, value)

SpecCookbook == InitCookbook /\ [][NextCookbook]_vars

(***************************************************************************)
(* The reviews of the detail view.                                         *)
(***************************************************************************)
ReviewLocations == {"#/recipe/m1", "#/recipe/m2", "#/login"}
ReviewForms ==
    {ReviewForm("2024-06-01", "2", "5", " good "),
     ReviewForm("", "2", "5", ""),
     ReviewForm("2024-06-02", "0", "5", ""),
     ReviewForm("2024-06-02", "2", "", ""),
     ReviewForm("2024-06-03", "6", "5", "")}

\* What earlier visits may have left in localStorage: Ann and Bob, Ann's session
\* or none, and no review, Bob's review of a recipe, or his and Ann's.
ReviewStores ==
    {<<current, stored>> :
        current \in {Null, Ann},
        stored \in {<<>>, <<StoredReview(3, "m1", 2, "")>>,
                    <<StoredReview(3, "m1", 2, ""), StoredReview(4, "m1", 1, "")>>}}

InitReviews ==
    \E store \in ReviewStores, location \in {"#/recipe/m1", "#/recipe/m2"} :
        PageLoad(<<Ann, Bob>>, store[1], store[2], Preloaded, location)

NextReviews ==
    \/ \E h \in ReviewLocations : Navigate(h)
    \/ DeliverHashChange
    \/ \E i \in 1..Len(tasks), ok \in BOOLEAN : TemplateResponse(i, ok)
    \/ \E i \in 1..Len(tasks) :
          \E resp \in LookupResponses(tasks[i].meal, {"v1"}) : RecipeResponse(i, resp)
    \/ \E i \in {"ann", "b@x"}, p \in {"secret", "secret7"} : LoginSubmit(i, p)
    \/ NavLogout
    \/ \E form \in ReviewForms : ReviewSubmit(form)

SpecReviews == InitReviews /\ [][NextReviews]_vars

(***************************************************************************)
(* Properties of the cookbook and of the reviews.                          *)
(***************************************************************************)
NoRepeatedMeal(cookbook) ==
    \A i, j \in 1..Len(cookbook) : i # j => cookbook[i].mealId # cookbook[j].mealId

\* C10: every User's cookbook holds at most one entry per mealId, in the Users
\* collection and in the current-user pointer, whatever updateCookbook and
\* updateCookbookNote calls were made, repeated add requests included.
C10_OneEntryPerMeal ==
    /\ \A i \in 1..Len(users) : NoRepeatedMeal(users[i].cookbook)
    /\ currentUser # Null => NoRepeatedMeal(currentUser.cookbook)

\* One click ran two listeners that both asked to add m2: Ann's cookbook, stored
\* and current, holds m2 once.
C10_Witness ==
    /\ last = "toggle twice"
    /\ currentUser # Null
    /\ currentUser.cookbook = <<Entry("m2", "")>>
    /\ users[1].cookbook = <<Entry("m2", "")>>

\* The submission handleReviewSubmit stores, as the code decides it.
StoredSubmission(form) ==
    form.date # "" /\ Number(form.difficulty) >= 1 /\ Number(form.taste) >= 1

OneReviewPerPair ==
    \A i, j \in 1..Len(reviews) :
        i # j => ~(/\ reviews[i].recipeId = reviews[j].recipeId
                   /\ reviews[i].userId = reviews[j].userId)

\* C5: the stored Reviews hold at most one Review per (recipeId, userId); a stored
\* submission for an existing pair keeps the Review's id and position and replaces
\* its other fields, leaves every other Review as it was, and a first submission
\* for a pair appends exactly one Review.
C5_ReviewUpsert ==
    /\ []OneReviewPerPair
    /\ [][\A form \in ReviewForms :
            (/\ last' = "review" /\ currentUser # Null /\ StoredSubmission(form)
             /\ ReviewSubmit(form)) =>
               LET uid == currentUser.id
                   recipes == {mount.lst[k].meal : k \in 1..Len(mount.lst)}
                   fresh == {m \in recipes :
                               \A i \in 1..Len(reviews) :
                                   ~(reviews[i].recipeId = m /\ reviews[i].userId = uid)}
                   submitted(id, m) ==
                       [id |-> id, recipeId |-> m, userId |-> uid,
                        dataPreparazione |-> form.date,
                        difficolta |-> Number(form.difficulty),
                        gusto |-> Number(form.taste),
                        commento |-> Trim(form.comment)]
               IN /\ Len(reviews') = Len(reviews) + Cardinality(fresh)
                  /\ \A i \in 1..Len(reviews) :
                        reviews'[i] =
                            IF reviews[i].userId = uid /\ reviews[i].recipeId \in recipes
                            THEN submitted(reviews[i].id, reviews[i].recipeId)
                            ELSE reviews[i]
                  /\ \A m \in fresh :
                        \E i \in (Len(reviews) + 1)..Len(reviews') :
                            reviews'[i] = submitted(reviews'[i].id, m)]_vars

\* Ann resubmitted the review of m1 she had stored after Bob's: Bob's is untouched,
\* hers is still second with the id it had, and carries the submitted values.
C5_Witness ==
    /\ last = "review"
    /\ reviews = <<StoredReview(3, "m1", 2, ""),
                   [id |-> 4, recipeId |-> "m1", userId |-> 1,
                    dataPreparazione |-> "2024-06-01", difficolta |-> 2, gusto |-> 5,
                    commento |-> "good"]>>

\* C9: every stored Review has difficulty in 1..5 and taste in 1..5.
C9_RatingsInRange ==
    \A i \in 1..Len(reviews) :
        /\ reviews[i].difficolta \in 1..5
        /\ reviews[i].gusto \in 1..5

(***************************************************************************)
(* The router: public and protected routes, with and without a session.    *)
(***************************************************************************)
RouterLocations ==
    {"#/home", "#/login", "#/profile", "#/cookbook", "#/reviews", "#/nowhere"}

InitRouter ==
    \E current \in {Null, Ann},
       location \in {"", "#/profile", "#/cookbook", "#/reviews"} :
        PageLoad(<<Ann>>, current, <<>>, Preloaded, location)

NextRouter ==
    \/ \E h \in RouterLocations : Navigate(h)
    \/ DeliverHashChange
    \/ \E i \in 1..Len(tasks), ok \in BOOLEAN : TemplateResponse(i, ok)
    \/ \E p \in {"secret", "secret7"} : LoginSubmit("ann", p)
    \/ NavLogout
    \/ ProfileLogout

SpecRouter == InitRouter /\ [][NextRouter]_vars

\* C1: when a transition to #/profile, #/cookbook or #/reviews is processed with
\* no current user, the location becomes #/login, nothing is written into the
\* mount point, and neither a template load nor the route's controller is started.
C1_ProtectedRouteRedirects ==
    [][(/\ last' = "route"
        /\ hash \in {"#/profile", "#/cookbook", "#/reviews"}
        /\ currentUser = Null
        /\ DeliverHashChange) =>
           /\ hash' = "#/login"
           /\ hashEvents' = hashEvents
           /\ UNCHANGED <<mount, tasks, fragmentsCache, activeRoute, navTarget,
                          users, reviews, meals, currentUser>>]_vars

\* The page was opened on a protected route with no session: its first transition
\* left the mount point blank, started no template load, and queued the
\* transition to #/login.
C1_Witness ==
    /\ last = "route"
    /\ currentUser = Null
    /\ hash = "#/login" /\ hashEvents = 1
    /\ mount = FreshMount("blank")
    /\ tasks = <<>>
    /\ fragmentsCache = <<>>

(***************************************************************************)
(* ensureMealInCache called back to back: a caller awaits one call before  *)
(* making the next, and nothing else touches the cache meanwhile.          *)
(* ensureLog records, for each completed call, its id, the catalog         *)
(* requests it issued, and how it ended.                                   *)
(***************************************************************************)
MaxCalls == 3
EnsureIds == {"", "m1", "m2", "m9"}
Revisions == {"v1", "v2"}

Call(id, requests, out, value) ==
    [id |-> id, requests |-> requests, out |-> out, value |-> value]

\* ensureMealInCache(mealId) up to its first await on the network: a cached
\* recipe is returned; fetchMealById returns null for an empty id; otherwise the
\* lookup request is issued.
EnsureCall(mealId) ==
    /\ tasks = <<>>
    /\ Len(ensureLog) < MaxCalls
    /\ LET cached == ensureMealInCacheHit(World, mealId)
       IN IF cached # Nothing
          THEN /\ Commit(World)
               /\ ensureLog' = Append(ensureLog, Call(mealId, 0, "returned", cached))
          ELSE IF mealId = ""
          THEN /\ Commit(ensureMealInCacheResume(World, Nothing))
               /\ ensureLog' = Append(ensureLog, Call(mealId, 0, "returned", Nothing))
          ELSE /\ Commit([World EXCEPT !.tasks =
                            <<Task("ensure", "", "", Nothing, mealId, FALSE, FALSE)>>])
               /\ ensureLog' = ensureLog
    /\ last' = "ensure"

\* The catalog answers the lookup: queryApi throws on a failure; otherwise the
\* recipe, if there is one, is cached and returned.
EnsureResponse(resp) ==
    /\ tasks # <<>>
    /\ tasks[1].k = "ensure"
    /\ IF ~resp.ok
       THEN /\ Commit([World EXCEPT !.tasks = <<>>])
            /\ ensureLog' = Append(ensureLog, Call(tasks[1].meal, 1, "threw", Nothing))
       ELSE LET meal == fetchMealByIdResult(resp)
            IN /\ Commit([ensureMealInCacheResume(World, meal) EXCEPT !.tasks = <<>>])
               /\ ensureLog' = Append(ensureLog, Call(tasks[1].meal, 1, "returned", meal))
    /\ last' = "lookup"

InitEnsure == PageLoad(<<>>, Null, <<>>, Preloaded, "")

NextEnsure ==
    \/ \E mealId \in EnsureIds : EnsureCall(mealId)
    \/ \E i \in 1..Len(tasks) :
          \E resp \in LookupResponses(tasks[i].meal, Revisions) : EnsureResponse(resp)

SpecEnsure == InitEnsure /\ [][NextEnsure]_vars

MalformedLocations == {"", "#", "#about", "#recipe/m1"}

Locations ==
    MalformedLocations
    \cup {"#/home", "#/search", "#/profile", "#/recipe", "#/recipe/", "#/recipe/m1",
          "#/recipe/m2/steps", "#/recipes", "#/home/", "#/Home", "#/"}

InitLocations ==
    \E current \in {Null, Ann}, location \in {"", "#about", "#/recipe/m1", "#/Home"} :
        PageLoad(<<Ann>>, current, <<>>, Preloaded, location)

NextLocations ==
    \/ \E h \in Locations : Navigate(h)
    \/ DeliverHashChange
    \/ \E i \in 1..Len(tasks), ok \in BOOLEAN : TemplateResponse(i, ok)
    \/ \E i \in 1..Len(tasks) :
          \E resp \in LookupResponses(tasks[i].meal, {"v1"}) : RecipeResponse(i, resp)

SpecLocations == InitLocations /\ [][NextLocations]_vars

\* The transition being processed matched route key with parameter param, for the
\* location h: its template load was started, or (the template being cached) its
\* view was mounted.
Resolved(key, param, h) ==
    /\ activeRoute' = h
    /\ IF ROUTES[key].template \in DOMAIN fragmentsCache
       THEN mount'.view = ROUTES[key].view
       ELSE /\ tasks' = Append(tasks, Task("tpl", h, key, param, "", FALSE, TRUE))
            /\ mount' = mount

\* C11: a location that is empty or does not begin with "#/" resolves to the
\* default route #/home: the transition does not end in NotFound and the
\* recorded active location becomes "#/home".
C11_MalformedResolvesToHome ==
    /\ [][(/\ last' = "route"
           /\ (hash = "" \/ Len(hash) < 2 \/ SubSeq(hash, 1, 2) # "#/")
           /\ DeliverHashChange) =>
              /\ Resolved("#/home", Nothing, "#/home")
              /\ hash' = hash]_vars
    /\ [][\A i \in 1..Len(tasks), ok \in BOOLEAN :
            (last' = "template" /\ tasks[i].key = "#/home" /\ TemplateResponse(i, ok)) =>
                mount'.view = IF ok THEN "home" ELSE "error"]_vars

\* The location #about was processed with the home template cached: the home view
\* is mounted and the active location is #/home.
C11_Witness ==
    /\ last = "route"
    /\ hash = "#about" /\ hashEvents = 0
    /\ mount.view = "home"
    /\ activeRoute = "#/home"
    /\ navTarget = "#/home"

\* The keys of the Route Table, and the path segment that follows "#/recipe/" in
\* each location that begins with it.
RouteKeys ==
    {"#/home", "#/login", "#/register", "#/profile", "#/search", "#/cookbook",
     "#/reviews", "#/recipe"}
RecipeSegment ==
    ("#/recipe/" :> "") @@ ("#/recipe/m1" :> "m1") @@ ("#/recipe/m2/steps" :> "m2")

\* The detail view's controller was handed the recipe id segment.
DetailGiven(segment) ==
    ROUTES["#/recipe"].template \in DOMAIN fragmentsCache =>
        IF segment = ""
        THEN mount'.stage = "missing"
        ELSE IF segment \in DOMAIN meals
        THEN mount'.stage = "full" /\ mount'.meal = segment
        ELSE /\ Len(tasks') = Len(tasks) + 1
             /\ tasks'[Len(tasks')].k = "recipe"
             /\ tasks'[Len(tasks')].meal = segment

\* C12: a location beginning with "#/recipe/" resolves to the route key #/recipe
\* with the segment after "#/recipe/" as its parameter; any other location
\* beginning with "#/" resolves only when it equals a key of the Route Table, and
\* ends in NotFound otherwise: each transition ends in one matched route or in
\* NotFound.
C12_ResolvesOneRouteOrNotFound ==
    [][(/\ last' = "route"
        /\ Len(hash) >= 2 /\ SubSeq(hash, 1, 2) = "#/"
        /\ DeliverHashChange) =>
           IF hash \in DOMAIN RecipeSegment
           THEN /\ Resolved("#/recipe", Just(RecipeSegment[hash]), hash)
                /\ DetailGiven(RecipeSegment[hash])
           ELSE IF hash \in RouteKeys
           THEN /\ hash \in DOMAIN ROUTES
                /\ IF ROUTES[hash].auth /\ currentUser = Null
                   THEN hash' = "#/login" /\ mount' = mount /\ tasks' = tasks
                   ELSE Resolved(hash, Nothing, hash)
           ELSE /\ mount' = FreshMount("notfound")
                /\ Len(tasks') = Len(tasks)
                /\ activeRoute' = activeRoute
                /\ hash' = hash]_vars

\* #/recipe/m2/steps was processed with the detail template cached: the detail
\* view is mounted and its lookup of m2 is under way.
C12_Witness ==
    /\ last = "route"
    /\ hash = "#/recipe/m2/steps" /\ hashEvents = 0
    /\ activeRoute = "#/recipe/m2/steps"
    /\ mount.view = "recipe" /\ mount.stage = "loading"
    /\ Len(tasks) = 1 /\ tasks[1].k = "recipe" /\ tasks[1].meal = "m2"

\* C13: after persistUser(u), a current-user pointer that held u's id equals u,
\* the same values as the stored User; any other pointer is unchanged.
C13_PointerFollowsPersistedUser ==
    [][\A e \in Emails :
         (last' = "profile" /\ Trim(e) # "" /\ ProfileSubmit(e, "")) =>
            LET u == [mount.user EXCEPT !.email = Trim(e), !.favorites = ""]
            IN IF currentUser # Null /\ currentUser.id = u.id
               THEN /\ currentUser' = u
                    /\ \E i \in 1..Len(users') : users'[i] = currentUser'
               ELSE currentUser' = currentUser]_vars

\* A logged-in user changed the email on the profile form: the pointer and the
\* stored User both carry the new address, which the view's captured User lacks.
C13_Witness ==
    /\ last = "profile"
    /\ mount.view = "profile"
    /\ currentUser # Null
    /\ currentUser.id = mount.user.id
    /\ currentUser.email # mount.user.email
    /\ \E i \in 1..Len(users) : users[i] = currentUser

\* The suspended transition i has ended in the Error page: the page is mounted,
\* nothing was retried (no load started, no location change queued), the
\* template cache and the location are as they were, and the router still listens.
EndedInError(i) ==
    /\ mount' = FreshMount("error")
    /\ Len(tasks') = Len(tasks) - 1
    /\ \A j \in 1..Len(tasks') :
          /\ tasks'[j].k = tasks[IF j < i THEN j ELSE j + 1].k
          /\ tasks'[j].key = tasks[IF j < i THEN j ELSE j + 1].key
    /\ hashEvents' = hashEvents
    /\ hash' = hash
    /\ fragmentsCache' = fragmentsCache
    /\ listening'

\* C14: when the template fetch of a transition fails, or its controller rejects
\* (the catalog lookup it awaits fails) or throws (it resumes after its elements
\* left the document), the Error page is written into the mount point, nothing
\* is retried, and the router goes on listening for location changes.
C14_FailureRendersError ==
    /\ [][\A i \in 1..Len(tasks) :
            (last' = "template" /\ TemplateResponse(i, FALSE)) => EndedInError(i)]_vars
    /\ [][\A i \in 1..Len(tasks) :
            (/\ last' = "recipe" /\ tasks[i].routed
             /\ RecipeResponse(i, Response(FALSE, <<>>))) => EndedInError(i)]_vars
    /\ [][\A i \in 1..Len(tasks) :
            (/\ last' = "recipe" /\ tasks[i].routed /\ ~tasks[i].att
             /\ ~(mount.view = "recipe" /\ mount.stage = "full")
             /\ tasks[i].meal \in CatalogIds
             /\ RecipeResponse(i, Response(TRUE, <<CatalogWire(tasks[i].meal, "v1")>>))) =>
                EndedInError(i)]_vars

\* The lookup of a detail view came back after the home view had replaced it: the
\* recipe is cached, the Error page is mounted over the location #/home, and
\* nothing is under way.
C14_Witness ==
    /\ last = "recipe"
    /\ mount = FreshMount("error")
    /\ hash = "#/home" /\ activeRoute = "#/home"
    /\ "m2" \in DOMAIN meals
    /\ tasks = <<>> /\ hashEvents = 0
    /\ listening

(***************************************************************************)
(* Templates.  The visitor moves between views whose templates are fetched *)
(* on first use, while the server may fail or may hold a newer text of a   *)
(* template at each fetch.                                                 *)
(***************************************************************************)
TemplateLocations == {"", "#about", "#/home", "#/search", "#/login", "#/nowhere"}

InitTemplates ==
    \E location \in {"", "#/search"} : PageLoad(<<Ann>>, Null, <<>>, Preloaded, location)

NextTemplates ==
    \/ \E h \in TemplateLocations : Navigate(h)
    \/ DeliverHashChange
    \/ \E i \in 1..Len(tasks) :
          \E resp \in TemplateResults(ROUTES[tasks[i].key].template) : TemplateLoaded(i, resp)

SpecTemplates == InitTemplates /\ [][NextTemplates]_vars

\* The templates whose fetch is under way.
Fetching(ts) == {ROUTES[ts[i].key].template : i \in {j \in 1..Len(ts) : ts[j].k = "tpl"}}

\* C15: a template that has been loaded once is served from the cache from then
\* on: a route change to a view whose template is cached starts no fetch of it,
\* a failed fetch leaves the template cache as it was, and no step removes a
\* cached template or replaces its text.
C15_TemplateCachedForGood ==
    /\ [][\A path \in DOMAIN fragmentsCache :
            /\ path \in DOMAIN fragmentsCache'
            /\ fragmentsCache'[path] = fragmentsCache[path]]_vars
    /\ [][(last' = "route" /\ DeliverHashChange)
            => Fetching(tasks') \ Fetching(tasks) \subseteq
                   {path \in Fetching(tasks') : path \notin DOMAIN fragmentsCache}]_vars
    /\ [][\A i \in 1..Len(tasks) :
            (last' = "template" /\ tasks[i].k = "tpl"
             /\ TemplateLoaded(i, TemplateResult(FALSE, "")))
            => fragmentsCache' = fragmentsCache]_vars

(***************************************************************************)
(* Catalog gateway (lines 299-339): the four request functions, each up to *)
(* its first await and after it.  A caller makes its calls in sequence;    *)
(* ensureLog records every call: the function, its argument, the requests *)
(* it issued in order, how it ended, and what it returned.                 *)
(***************************************************************************)
\* encodeURIComponent on the characters the arguments are made of: letters and
\* digits stay, a space becomes %20.
RECURSIVE encodeURIComponent(_)
encodeURIComponent(s) ==
    IF Len(s) = 0
    THEN ""
    ELSE (IF SubSeq(s, 1, 1) = " " THEN "%20" ELSE SubSeq(s, 1, 1))
         \o encodeURIComponent(SubSeq(s, 2, Len(s)))

\* !x?.trim() for a nullable string x
Blank(x) == x = Nothing \/ Trim(x[1]) = ""

\* !x for a nullable string x
Falsy(x) == x = Nothing \/ x[1] = ""

\* An async function at its first suspension: it has returned value already, or
\* it awaits the answer to request.
Returned(value) == [returned |-> TRUE, value |-> value, request |-> ""]
Awaiting(request) == [returned |-> FALSE, value |-> <<>>, request |-> request]

fetchMealsByName(name) ==
    IF Blank(name)
    THEN Returned(<<>>)
    ELSE Awaiting("search.php?s=" \o encodeURIComponent(Trim(name[1])))

fetchMealsByFirstLetter(letter) ==
    IF Blank(letter)
    THEN Returned(<<>>)
    ELSE Awaiting("search.php?f=" \o encodeURIComponent(Trim(letter[1])))

fetchMealsByIngredientCall(ingredient) ==
    IF Blank(ingredient)
    THEN Returned(<<>>)
    ELSE Awaiting("filter.php?i=" \o encodeURIComponent(Trim(ingredient[1])))

fetchMealById(id) ==
    IF Falsy(id)
    THEN Returned(Nothing)
    ELSE Awaiting("lookup.php?i=" \o encodeURIComponent(id[1]))

\* meals.slice(0, 12)
DetailLimit == 12

\* slice that keeps the whole list
limited_Whole(listed) == listed

limited(listed) ==
    SubSeq(listed, 1, IF Len(listed) < DetailLimit THEN Len(listed) ELSE DetailLimit)

\* limited.map(meal => fetchMealById(meal.idMeal)): the calls, each at its await
detailCalls(listed) ==
    [i \in 1..Len(limited(listed)) |-> fetchMealById(Just(limited(listed)[i].idMeal))]

\* The requests those calls issue, in the order of the calls.
RECURSIVE detailRequests(_)
detailRequests(calls) ==
    IF calls = <<>>
    THEN <<>>
    ELSE (IF calls[1].returned THEN <<>> ELSE <<calls[1].request>>)
         \o detailRequests(SubSeq(calls, 2, Len(calls)))

\* detailed.filter(Boolean), answers[i] being the body that answered call i
RECURSIVE detailedMeals(_, _)
detailedMeals(calls, answers) ==
    IF calls = <<>>
    THEN <<>>
    ELSE (IF calls[1].returned THEN calls[1].value ELSE fetchMealByIdResult(answers[1]))
         \o detailedMeals(SubSeq(calls, 2, Len(calls)), SubSeq(answers, 2, Len(answers)))

GatewayOps ==
    {"fetchMealsByName", "fetchMealsByFirstLetter", "fetchMealsByIngredient", "fetchMealById"}

\* The function op called with arg.
gatewayCall(op, arg) ==
    CASE op = "fetchMealsByName" -> fetchMealsByName(arg)
      [] op = "fetchMealsByFirstLetter" -> fetchMealsByFirstLetter(arg)
      [] op = "fetchMealsByIngredient" -> fetchMealsByIngredientCall(arg)
      [] op = "fetchMealById" -> fetchMealById(arg)

GatewayCall(op, arg, requests, out, value, listed) ==
    [op |-> op, arg |-> arg, requests |-> requests, out |-> out, value |-> value,
     listed |-> listed]

MaxGatewayCalls == 2

\* Arguments: absent, empty, whitespace-only, padded, plain.
GatewayInputs == {Nothing, Just(""), Just("  "), Just(" egg "), Just("m1")}

\* What the catalog holds under a lookup request.
CatalogAnswer(request) ==
    IF \E id \in CatalogIds : request = "lookup.php?i=" \o id
    THEN LET id == CHOOSE id \in CatalogIds : request = "lookup.php?i=" \o id
         IN Response(TRUE, <<CatalogWire(id, "v1")>>)
    ELSE Response(TRUE, <<>>)

\* A record of the filter endpoint: id and name only.
Listed(id) == WireMeal(id, id, <<>>, <<>>)

Unlisted == [i \in 1..11 |-> Listed(<<"u1", "u2", "u3", "u4", "u5", "u6", "u7", "u8",
                                        "u9", "u10", "u11">>[i])]

\* Lists the filter endpoint may answer with: 0, 1, 3, 12, 13 and 14 records.
FilterLists ==
    {<<>>,
     <<Listed("m2")>>,
     <<Listed("m2"), Listed("u1"), Listed("m1")>>,
     Unlisted \o <<Listed("m1")>>,
     Unlisted \o <<Listed("m2"), Listed("m1")>>,
     <<Listed("m2")>> \o Unlisted \o <<Listed("u12"), Listed("m1")>>}

\* Lists the search endpoint may answer with; the last one holds a record without
\* id between two revisions of m1.
SearchLists ==
    {<<>>,
     <<CatalogWire("m1", "v1")>>,
     <<CatalogWire("m2", "v1"), CatalogWire("m1", "v1")>>,
     <<CatalogWire("m1", "v1"), CatalogWire("", "v1"), CatalogWire("m1", "v2")>>}

GatewayResponses(op, request) ==
    {Response(FALSE, <<>>)}
    \cup (CASE op = "fetchMealsByIngredient" -> {Response(TRUE, l) : l \in FilterLists}
            [] op = "fetchMealById" -> {CatalogAnswer(request)}
            [] OTHER -> {Response(TRUE, l) : l \in SearchLists})

\* No call of the caller is under way.
GatewayIdle ==
    \A k \in 1..Len(ensureLog) : ensureLog[k].out \in {"returned", "threw"}

\* The caller calls a gateway function.
GatewayInvoke(op, arg) ==
    /\ Len(ensureLog) < MaxGatewayCalls
    /\ GatewayIdle
    /\ LET call == gatewayCall(op, arg)
       IN ensureLog' = Append(ensureLog,
              IF call.returned
              THEN GatewayCall(op, arg, <<>>, "returned", call.value, <<>>)
              ELSE GatewayCall(op, arg, <<call.request>>, "awaiting", <<>>, <<>>))
    /\ Commit(World)
    /\ last' = "gateway"

\* queryApi gets its answer and the function goes on to its next await or its end.
GatewayResponse(resp) ==
    /\ ensureLog # <<>>
    /\ LET n == Len(ensureLog)
           c == ensureLog[n]
       IN /\ c.out = "awaiting"
          /\ ensureLog' = [ensureLog EXCEPT ![n] =
               IF ~resp.ok
               THEN [c EXCEPT !.out = "threw"]
               ELSE IF c.op = "fetchMealById"
               THEN [c EXCEPT !.out = "returned", !.value = fetchMealByIdResult(resp)]
               ELSE IF c.op = "fetchMealsByIngredient"
               THEN LET calls == detailCalls(resp.meals)
                    IN IF detailRequests(calls) = <<>>
                       THEN [c EXCEPT !.out = "returned", !.listed = resp.meals,
                                      !.value = detailedMeals(calls, <<>>)]
                       ELSE [c EXCEPT !.out = "lookups", !.listed = resp.meals,
                                      !.requests = @ \o detailRequests(calls)]
               ELSE [c EXCEPT !.out = "returned", !.value = normalizeMealList(resp.meals)]]
    /\ Commit(World)
    /\ last' = "response"

\* Promise.all settles: lookup number failed was rejected (0: none was), and the
\* others were answered with what the catalog holds.
LookupsAnswered(failed) ==
    /\ ensureLog # <<>>
    /\ LET n == Len(ensureLog)
           c == ensureLog[n]
           calls == detailCalls(c.listed)
       IN /\ c.out = "lookups"
          /\ failed <= Len(calls)
          /\ failed # 0 => ~calls[failed].returned
          /\ ensureLog' = [ensureLog EXCEPT ![n] =
               IF failed # 0
               THEN [c EXCEPT !.out = "threw"]
               ELSE [c EXCEPT !.out = "returned", !.value =
                       detailedMeals(calls, [i \in 1..Len(calls) |->
                                                CatalogAnswer(calls[i].request)])]]
    /\ Commit(World)
    /\ last' = "lookups"

InitGateway == PageLoad(<<>>, Null, <<>>, Preloaded, "")

NextGateway ==
    \/ \E op \in GatewayOps, arg \in GatewayInputs : GatewayInvoke(op, arg)
    \/ \E resp \in UNION {GatewayResponses(ensureLog[k].op, ensureLog[k].requests[1]) :
                            k \in {j \in {Len(ensureLog)} : /\ j > 0
                                                            /\ ensureLog[j].out = "awaiting"}} :
          GatewayResponse(resp)
    \/ \E failed \in 0..DetailLimit : LookupsAnswered(failed)

SpecGateway == InitGateway /\ [][NextGateway]_vars

\* C16: a call of any of the four gateway functions with an absent, empty or
\* whitespace-only argument issues no request and returns an empty result.
C16_BlankInputIssuesNoRequest ==
    \A k \in 1..Len(ensureLog) :
        (\/ ensureLog[k].arg = Nothing
         \/ \A i \in 1..Len(ensureLog[k].arg[1]) : SubSeq(ensureLog[k].arg[1], i, i) = " ")
        => /\ ensureLog[k].requests = <<>>
           /\ ensureLog[k].out = "returned"
           /\ ensureLog[k].value = <<>>

\* The smaller of two numbers.
Least(a, b) == IF a < b THEN a ELSE b

\* The recipes the catalog holds for the first n of the listed records, in order.
RECURSIVE Resolving(_, _)
Resolving(listed, n) ==
    IF n = 0
    THEN <<>>
    ELSE Resolving(listed, n - 1)
         \o (IF listed[n].idMeal \in CatalogIds
             THEN <<normalizeMeal(CatalogWire(listed[n].idMeal, "v1"))>>
             ELSE <<>>)

\* C17: when the filter endpoint has answered with n records, fetchMealsByIngredient
\* has issued, after the filter request, one lookup for each of the first
\* min(12, n) records, in order, and none for a later record; what it returns is
\* the recipes those lookups resolved to, in the order of the list, so at most 12.
C17_LookupsForFirstTwelve ==
    \A k \in 1..Len(ensureLog) :
        LET c == ensureLog[k]
            n == Len(c.listed)
        IN (c.op = "fetchMealsByIngredient" /\ c.out \in {"lookups", "returned", "threw"}
            /\ Len(c.requests) > 0)
           => /\ Len(c.requests) = 1 + Least(DetailLimit, n)
              /\ \A i \in 1..Least(DetailLimit, n) :
                    c.requests[1 + i] = "lookup.php?i=" \o c.listed[i].idMeal
              /\ c.out = "returned" =>
                    /\ c.value = Resolving(c.listed, Least(DetailLimit, n))
                    /\ Len(c.value) <= DetailLimit

\* The endpoint listed 13 records, the thirteenth being m1; twelve lookups went out
\* and the call returned m2 alone, the recipe of the twelfth record.
C17_Witness ==
    /\ last = "lookups"
    /\ Len(ensureLog) = 1
    /\ Len(ensureLog[1].listed) = 13
    /\ ensureLog[1].listed[13].idMeal = "m1"
    /\ Len(ensureLog[1].requests) = 13
    /\ ensureLog[1].out = "returned"
    /\ ensureLog[1].value = <<normalizeMeal(CatalogWire("m2", "v1"))>>

(***************************************************************************)
(* normalizeMeal on wire records of every shape: slots absent, empty,      *)
(* blank, padded and plain, with and without a measure, up to slot 20 and  *)
(* past it.  ensureLog holds the record given and the recipe returned.     *)
(***************************************************************************)
WireNames == {Nothing, Just(""), Just(" "), Just("Flour"), Just(" Egg ")}
WireMeasures == {Nothing, Just("200g"), Just(" 2 ")}

\* A record whose slots 20 and 21 alone are filled.
LastSlots == [i \in 1..(Slots + 1) |-> IF i >= Slots THEN Just("Salt") ELSE Nothing]

WireRecords ==
    {WireMeal("m1", "Cake", ing, meas) :
        ing \in {<<>>} \cup [1..1 -> WireNames] \cup [1..2 -> WireNames]
                \cup [1..3 -> WireNames],
        meas \in {<<>>} \cup [1..1 -> WireMeasures] \cup [1..2 -> WireMeasures]}
    \cup {WireMeal("m2", "Soup", LastSlots, LastSlots)}

\* The catalog hands over a record and normalizeMeal converts it.
NormalizeMeal(meal) ==
    /\ ensureLog = <<>>
    /\ ensureLog' = <<[raw |-> meal, value |-> normalizeMeal(meal)]>>
    /\ Commit(World)
    /\ last' = "normalize"

InitNormalize == PageLoad(<<>>, Null, <<>>, Preloaded, "")

NextNormalize == \E meal \in WireRecords : NormalizeMeal(meal)

SpecNormalize == InitNormalize /\ [][NextNormalize]_vars

\* s is made of spaces only (the empty string included).
AllSpaces(s) == \A i \in 1..Len(s) : SubSeq(s, i, i) = " "

\* The slots 1..20 of a wire record whose ingredient is present and not blank.
NamedSlots(raw) ==
    {i \in 1..20 : i <= Len(raw.ing) /\ raw.ing[i] # Nothing /\ ~AllSpaces(raw.ing[i][1])}

\* The k-th smallest element of a set of numbers.
Nth(S, k) == CHOOSE i \in S : Cardinality({j \in S : j < i}) = k - 1

\* C18: the ingredients normalizeMeal returns are one {name, measure} pair for
\* each of the slots 1..20 whose ingredient is present and not blank, in
\* increasing slot order, name and measure trimmed, an absent measure being "";
\* a record with the single slot ("Flour", "200g") gives that one pair.
C18_NormalizeKeepsNamedSlots ==
    \A k \in 1..Len(ensureLog) :
        LET raw == ensureLog[k].raw
            got == ensureLog[k].value.ingredients
            S == NamedSlots(raw)
        IN /\ Len(got) = Cardinality(S)
           /\ \A n \in 1..Len(got) :
                LET i == Nth(S, n)
                IN /\ got[n].name = Trim(raw.ing[i][1])
                   /\ got[n].name # ""
                   /\ SubSeq(got[n].name, 1, 1) # " "
                   /\ SubSeq(got[n].name, Len(got[n].name), Len(got[n].name)) # " "
                   /\ got[n].measure = IF i > Len(raw.meas) \/ raw.meas[i] = Nothing
                                       THEN ""
                                       ELSE Trim(raw.meas[i][1])
           /\ (raw.ing = <<Just("Flour")>> /\ raw.meas = <<Just("200g")>>)
                => got = <<[name |-> "Flour", measure |-> "200g"]>>

\* A record with a blank slot 1, a padded slot 2 with a padded measure and a plain
\* slot 3 without measure gave two pairs, in slot order.
C18_Witness ==
    /\ last = "normalize"
    /\ ensureLog[1].raw.ing = <<Just(" "), Just(" Egg "), Just("Flour")>>
    /\ ensureLog[1].raw.meas = <<Just("200g"), Just(" 2 ")>>
    /\ ensureLog[1].value.ingredients =
          <<[name |-> "Egg", measure |-> "2"], [name |-> "Flour", measure |-> ""]>>

(***************************************************************************)
(* Search (lines 611-648) and the start-up preload (lines 439-450).        *)
(* A search suspended on its request is a task "search"; a search by       *)
(* ingredient suspended on its lookups is a task "details" whose param     *)
(* holds the records the filter endpoint listed.                           *)
(***************************************************************************)
\* The gateway function behind a search button (data-search).
searchFunction(type) ==
    CASE type = "name" -> "fetchMealsByName"
      [] type = "ingredient" -> "fetchMealsByIngredient"
      [] type = "letter" -> "fetchMealsByFirstLetter"

\* handleSearch once the gateway returned results: cache them, keep them, render.
handleSearchFound(w, results) == [cacheMeals(w, results) EXCEPT !.results = results]

\* handleSearch once the gateway threw: the results stay empty.
handleSearchFailed(w) == [w EXCEPT !.results = <<>>]

\* handleSearch(type) with value in the field of that type, up to its await.
handleSearch(w, type, value) ==
    LET call == gatewayCall(searchFunction(type), Just(value))
    IN IF call.returned
       THEN handleSearchFound(w, call.value)
       ELSE [w EXCEPT !.tasks =
               Append(@, Task("search", "", searchFunction(type), Nothing, "", TRUE, FALSE))]

\* handleSearch after the search or filter request was answered.
handleSearchResume(w, t, resp) ==
    IF ~resp.ok
    THEN handleSearchFailed(w)
    ELSE IF t.key = "fetchMealsByIngredient"
    THEN LET calls == detailCalls(resp.meals)
         IN IF detailRequests(calls) = <<>>
            THEN handleSearchFound(w, detailedMeals(calls, <<>>))
            ELSE [w EXCEPT !.tasks =
                    Append(@, Task("details", "", t.key, Just(resp.meals), "", t.att, FALSE))]
    ELSE handleSearchFound(w, normalizeMealList(resp.meals))

\* handleSearch after Promise.all settled: lookup number failed was rejected
\* (0: none was).
handleSearchDetails(w, t, failed) ==
    LET calls == detailCalls(t.param[1])
    IN IF failed # 0
       THEN handleSearchFailed(w)
       ELSE handleSearchFound(w, detailedMeals(calls,
                [i \in 1..Len(calls) |-> CatalogAnswer(calls[i].request)]))

\* meals.slice(0, 8)
PreloadSample == 8

\* preloadFeaturedMeals after its request, and initApp after it: the first recipes
\* of the answer are cached (a failure is swallowed), the hashchange listener is
\* registered and the first route is handled.
preloadResume(w, resp) ==
    LET found == normalizeMealList(resp.meals)
        sample == SubSeq(found, 1, IF Len(found) < PreloadSample THEN Len(found)
                                                                 ELSE PreloadSample)
        w1 == IF resp.ok THEN cacheMeals(w, sample) ELSE w
    IN handleRouteChange([w1 EXCEPT !.listening = TRUE])

\* Nine recipes under the letter a, the last one being m2.
NineMeals == [i \in 1..9 |->
                CatalogWire(<<"a1", "a2", "a3", "a4", "a5", "a6", "a7", "a8", "m2">>[i], "v1")]

PreloadResponses ==
    {Response(FALSE, <<>>), Response(TRUE, <<>>), Response(TRUE, <<CatalogWire("m1", "v2")>>),
     Response(TRUE, NineMeals)}

SearchTypes == {"name", "ingredient", "letter"}
SearchValues == {"", "  ", " egg "}

\* A click on one of the search buttons.
SearchClick(type, value) ==
    /\ UserCanAct
    /\ mount.view = "search"
    /\ mount.armed
    /\ Act(handleSearch(World, type, value), "search")

\* The catalog answers the request of a suspended search.
SearchResponse(i, resp) ==
    /\ tasks[i].k = "search"
    /\ Act(handleSearchResume([World EXCEPT !.tasks = RemoveAt(@, i)], tasks[i], resp),
           "results")

\* The lookups of a suspended search by ingredient have all ended.
SearchDetails(i, failed) ==
    /\ tasks[i].k = "details"
    /\ failed <= Len(detailCalls(tasks[i].param[1]))
    /\ Act(handleSearchDetails([World EXCEPT !.tasks = RemoveAt(@, i)], tasks[i], failed),
           "details")

\* The catalog answers the start-up preload.
PreloadResponse(i, resp) ==
    /\ tasks[i].k = "preload"
    /\ Act(preloadResume([World EXCEPT !.tasks = RemoveAt(@, i)], resp), "preload")

(***************************************************************************)
(* Recipe cache: a visitor opens the page with or without cached recipes,  *)
(* searches, and opens recipes.                                            *)
(***************************************************************************)
CacheLocations == {"#/search", "#/recipe/m1", "#/recipe/m2", "#/recipe/m9"}

InitCache ==
    \E stored \in {<<>>, Preloaded}, location \in {"#/search", "#/recipe/m2"} :
        PageLoad(<<Ann>>, Null, <<>>, stored, location)

NextCache ==
    \/ \E h \in CacheLocations : Navigate(h)
    \/ DeliverHashChange
    \/ \E i \in 1..Len(tasks), ok \in BOOLEAN : TemplateResponse(i, ok)
    \/ \E i \in 1..Len(tasks) :
          \E resp \in LookupResponses(tasks[i].meal, Revisions) : RecipeResponse(i, resp)
    \/ \E i \in 1..Len(tasks), resp \in PreloadResponses : PreloadResponse(i, resp)
    \/ \E type \in SearchTypes, value \in SearchValues : SearchClick(type, value)
    \/ \E i \in 1..Len(tasks) :
          \E resp \in GatewayResponses(tasks[i].key, "") : SearchResponse(i, resp)
    \/ \E i \in 1..Len(tasks), failed \in 0..DetailLimit : SearchDetails(i, failed)

SpecCache == InitCache /\ [][NextCache]_vars

\* after is before with every recipe of list that has an id written under its
\* id, the last one of list when an id occurs twice.
Overridden(before, list, after) ==
    LET ids == {list[i].id : i \in 1..Len(list)} \ {""}
    IN /\ DOMAIN after = DOMAIN before \cup ids
       /\ \A id \in DOMAIN after :
            IF id \in ids
            THEN \E i \in 1..Len(list) :
                    /\ list[i].id = id
                    /\ after[id] = list[i]
                    /\ \A j \in (i + 1)..Len(list) : list[j].id # id
            ELSE after[id] = before[id]

\* The first eight recipes of a preload answer.
Sampled(resp) ==
    [i \in 1..Least(8, Len(resp.meals)) |-> normalizeMeal(resp.meals[i])]

\* C19: every step that calls cacheMeals(list) (a search that ended, a recipe
\* lookup that found a recipe, the start-up preload) leaves the recipe cache
\* equal to the cache before it overridden, id by id, by the recipes of list that
\* have an id; and no step of the program removes an id from the recipe cache.
C19_CacheOnlyGrows ==
    /\ [][DOMAIN meals \subseteq DOMAIN meals']_vars
    /\ [][(\/ last' = "search" /\ Len(tasks') = Len(tasks)
           \/ last' = "results" /\ Len(tasks') < Len(tasks)
           \/ last' = "details")
          => Overridden(meals, searchResults', meals')]_vars
    /\ [][\A i \in 1..Len(tasks) : \A resp \in LookupResponses(tasks[i].meal, Revisions) :
            (last' = "recipe" /\ resp.ok /\ resp.meals # <<>> /\ RecipeResponse(i, resp))
            => Overridden(meals, <<normalizeMeal(resp.meals[1])>>, meals')]_vars
    /\ [][\A i \in 1..Len(tasks) : \A resp \in PreloadResponses :
            (last' = "preload" /\ resp.ok /\ PreloadResponse(i, resp))
            => Overridden(meals, Sampled(resp), meals')]_vars

\* A search has just ended whose answer held m1 twice and a record without id,
\* while m2 was cached: m2 is still cached and m1 is cached in its later revision.
C19_Witness ==
    /\ last = "results"
    /\ Len(searchResults) = 3
    /\ DOMAIN meals = {"m1", "m2"}
    /\ meals["m1"] = normalizeMeal(CatalogWire("m1", "v2"))
    /\ meals["m2"] = normalizeMeal(CatalogWire("m2", "v1"))

(***************************************************************************)
(* Storage texts (lines 204-217).  localStorage holds texts; saveToStorage *)
(* writes JSON.stringify(value) and loadFromStorage reads with JSON.parse. *)
(* JSON values are null, booleans, natural numbers, strings without        *)
(* escapes, arrays and objects (a sequence of members in insertion order). *)
(***************************************************************************)
JNull == [t |-> "null", v |-> <<>>]
JBool(b) == [t |-> "bool", v |-> b]
JNum(n) == [t |-> "num", v |-> n]
JStr(str) == [t |-> "str", v |-> str]
JArr(items) == [t |-> "arr", v |-> items]
JObj(members) == [t |-> "obj", v |-> members]
Member(key, value) == [k |-> key, v |-> value]

IsDigit(c) == c \in {"0", "1", "2", "3", "4", "5", "6", "7", "8", "9"}

\* The decimal text of a natural number.
RECURSIVE Digits(_)
Digits(n) ==
    IF n < 10
    THEN SubSeq("0123456789", n + 1, n + 1)
    ELSE Digits(n \div 10) \o SubSeq("0123456789", (n % 10) + 1, (n % 10) + 1)

\* JSON.stringify
RECURSIVE JSONstringify(_)
RECURSIVE stringifyItems(_)
RECURSIVE stringifyMembers(_)
JSONstringify(value) ==
    CASE value.t = "null" -> "null"
      [] value.t = "bool" -> IF value.v THEN "true" ELSE "false"
      [] value.t = "num" -> Digits(value.v)
      [] value.t = "str" -> "\"" \o value.v \o "\""
      [] value.t = "arr" -> "[" \o stringifyItems(value.v) \o "]"
      [] value.t = "obj" -> "{" \o stringifyMembers(value.v) \o "}"

stringifyItems(items) ==
    IF items = <<>>
    THEN ""
    ELSE JSONstringify(items[1])
         \o (IF Len(items) > 1 THEN "," \o stringifyItems(Tail(items)) ELSE "")

stringifyMembers(members) ==
    IF members = <<>>
    THEN ""
    ELSE "\"" \o members[1].k \o "\":" \o JSONstringify(members[1].v)
         \o (IF Len(members) > 1 THEN "," \o stringifyMembers(Tail(members)) ELSE "")

\* A parser's result: the value read and the text after it, or a SyntaxError.
Parsed(value, rest) == [ok |-> TRUE, v |-> value, rest |-> rest]
SyntaxError == [ok |-> FALSE, v |-> <<>>, rest |-> ""]

\* The longest run of digits at the start of str.
RECURSIVE DigitRun(_)
DigitRun(str) ==
    IF Len(str) > 0 /\ IsDigit(SubSeq(str, 1, 1))
    THEN SubSeq(str, 1, 1) \o DigitRun(SubSeq(str, 2, Len(str)))
    ELSE ""

\* The text of str before its first double quote, or str when it has none.
RECURSIVE UpToQuote(_)
UpToQuote(str) ==
    IF Len(str) = 0 \/ SubSeq(str, 1, 1) = "\""
    THEN ""
    ELSE SubSeq(str, 1, 1) \o UpToQuote(SubSeq(str, 2, Len(str)))

\* A string literal at the start of str.
parseString(str) ==
    IF ~StartsWith(str, "\"")
    THEN SyntaxError
    ELSE LET body == UpToQuote(SubSeq(str, 2, Len(str)))
         IN IF Len(body) + 2 > Len(str)
            THEN SyntaxError
            ELSE Parsed(body, SubSeq(str, Len(body) + 3, Len(str)))

\* JSON.parse, by recursive descent: a value, the items of an array after "[",
\* the members of an object after "{".
RECURSIVE parseValue(_)
RECURSIVE parseItems(_, _)
RECURSIVE parseMembers(_, _)
parseValue(text) ==
    LET str == TrimLeft(text)
        after(n) == SubSeq(str, n + 1, Len(str))
    IN IF StartsWith(str, "null") THEN Parsed(JNull, after(4))
       ELSE IF StartsWith(str, "true") THEN Parsed(JBool(TRUE), after(4))
       ELSE IF StartsWith(str, "false") THEN Parsed(JBool(FALSE), after(5))
       ELSE IF StartsWith(str, "\"")
       THEN LET r == parseString(str)
            IN IF r.ok THEN Parsed(JStr(r.v), r.rest) ELSE SyntaxError
       ELSE IF StartsWith(str, "[")
       THEN IF StartsWith(TrimLeft(after(1)), "]")
            THEN Parsed(JArr(<<>>), SubSeq(TrimLeft(after(1)), 2, Len(TrimLeft(after(1)))))
            ELSE parseItems(after(1), <<>>)
       ELSE IF StartsWith(str, "{")
       THEN IF StartsWith(TrimLeft(after(1)), "}")
            THEN Parsed(JObj(<<>>), SubSeq(TrimLeft(after(1)), 2, Len(TrimLeft(after(1)))))
            ELSE parseMembers(after(1), <<>>)
       ELSE LET run == DigitRun(str)
            IN IF run = "" \/ (Len(run) > 1 /\ SubSeq(run, 1, 1) = "0")
               THEN SyntaxError
               ELSE Parsed(JNum(ParseDigits(run, 0)), after(Len(run)))

parseItems(text, items) ==
    LET r == parseValue(text)
    IN IF ~r.ok
       THEN SyntaxError
       ELSE LET rest == TrimLeft(r.rest)
                more == SubSeq(rest, 2, Len(rest))
            IN IF StartsWith(rest, ",") THEN parseItems(more, Append(items, r.v))
               ELSE IF StartsWith(rest, "]") THEN Parsed(JArr(Append(items, r.v)), more)
               ELSE SyntaxError

parseMembers(text, members) ==
    LET key == parseString(TrimLeft(text))
    IN IF ~key.ok \/ ~StartsWith(TrimLeft(key.rest), ":")
       THEN SyntaxError
       ELSE LET r == parseValue(SubSeq(TrimLeft(key.rest), 2, Len(TrimLeft(key.rest))))
            IN IF ~r.ok
               THEN SyntaxError
               ELSE LET rest == TrimLeft(r.rest)
                        more == SubSeq(rest, 2, Len(rest))
                        member == Member(key.v, r.v)
                    IN IF StartsWith(rest, ",") THEN parseMembers(more, Append(members, member))
                       ELSE IF StartsWith(rest, "}")
                       THEN Parsed(JObj(Append(members, member)), more)
                       ELSE SyntaxError

\* JSON.parse(text): the value, when the whole text is one value.
JSONparse(text) ==
    LET r == parseValue(text)
    IN IF r.ok /\ TrimLeft(r.rest) = "" THEN r ELSE SyntaxError

\* How a call ended: it returned value or it threw; storage is localStorage
\* after it.
Outcome(out, value, storage) == [out |-> out, value |-> value, storage |-> storage]

\* localStorage.getItem(key) on a storage that maps the keys it holds to texts.
getItem(storage, key) == IF key \in DOMAIN storage THEN Just(storage[key]) ELSE Nothing

\* loadFromStorage without its try/catch.
loadFromStorage_NoCatch(storage, key, defaultValue, denied) ==
    IF denied
    THEN Outcome("threw", JNull, storage)
    ELSE LET raw == getItem(storage, key)
         IN IF Falsy(raw)
            THEN Outcome("returned", defaultValue, storage)
            ELSE IF JSONparse(raw[1]).ok
            THEN Outcome("returned", JSONparse(raw[1]).v, storage)
            ELSE Outcome("threw", JNull, storage)

\* loadFromStorage.  denied: the browser refuses the page access to localStorage,
\* so that getItem throws.
loadFromStorage(storage, key, defaultValue, denied) ==
    IF denied
    THEN Outcome("returned", defaultValue, storage)
    ELSE LET raw == getItem(storage, key)
         IN IF Falsy(raw)
            THEN Outcome("returned", defaultValue, storage)
            ELSE IF JSONparse(raw[1]).ok
            THEN Outcome("returned", JSONparse(raw[1]).v, storage)
            ELSE Outcome("returned", defaultValue, storage)

\* saveToStorage
saveToStorage(storage, key, value) == (key :> JSONstringify(value)) @@ storage

\* Values the program stores, and others.
StoredValues ==
    <<JNull, JBool(TRUE), JNum(0), JNum(42), JStr(""), JStr("ann"), JArr(<<>>), JObj(<<>>),
      JArr(<<JNum(1), JArr(<<>>), JNull>>),
      JObj(<<Member("id", JNum(7)),
             Member("cookbook", JArr(<<JObj(<<Member("mealId", JStr("m1"))>>)>>))>>),
      JArr(<<JObj(<<Member("username", JStr("ann"))>>), JObj(<<>>)>>)>>

\* Texts that are not JSON.
BrokenTexts ==
    {"", " ", "{bad", "[1,", "[1,]", "[1 2]", "[]]", "undefined", "nul", "01", "\"ann",
     "{\"id\":}", "{\"id\" 7}"}

\* JSON with spaces between its tokens.
SpacedText == " [ 1 , { \"id\" : 7 } ] "

Defaults == <<JArr(<<>>), JObj(<<>>), JNull>>

StorageKeys == {"pgrc_users", "pgrc_meals"}

\* The storage the page finds: every key but one holds an empty array, and that
\* one is absent, holds what saveToStorage wrote, or holds another text.
FoundStorages ==
    LET rest(key) == [k \in StorageKeys \ {key} |-> "[]"]
    IN UNION {{rest(key)}
              \cup {saveToStorage(rest(key), key, StoredValues[i]) : i \in DOMAIN StoredValues}
              \cup {(key :> text) @@ rest(key) : text \in BrokenTexts \cup {SpacedText}}
              : key \in StorageKeys}

\* loadFromStorage(key, defaultValue) is called on a storage.
LoadFromStorage(storage, key, d, denied) ==
    /\ ensureLog = <<>>
    /\ ensureLog' = <<[storage |-> storage, key |-> key, defaultValue |-> Defaults[d],
                       denied |-> denied,
                       got |-> loadFromStorage(storage, key, Defaults[d], denied)]>>
    /\ Commit(World)
    /\ last' = "storage"

InitStorage == PageLoad(<<>>, Null, <<>>, Preloaded, "")

NextStorage ==
    \E storage \in FoundStorages, key \in StorageKeys, d \in DOMAIN Defaults,
       denied \in BOOLEAN : LoadFromStorage(storage, key, d, denied)

SpecStorage == InitStorage /\ [][NextStorage]_vars

\* C20: loadFromStorage never throws; when the text under the key is absent or
\* is not JSON it returns the default it was given and leaves the storage as it
\* was; when the text is JSON it returns the value the text stands for (what
\* saveToStorage wrote comes back as it was).
C20_LoadFallsBackToDefault ==
    \A n \in 1..Len(ensureLog) :
        LET c == ensureLog[n]
            held == c.key \in DOMAIN c.storage
        IN /\ c.got.out = "returned"
           /\ c.got.storage = c.storage
           /\ (~held \/ (held /\ c.storage[c.key] \in BrokenTexts))
                => c.got.value = c.defaultValue
           /\ \A i \in DOMAIN StoredValues :
                (~c.denied /\ held /\ c.storage[c.key] = JSONstringify(StoredValues[i]))
                => /\ c.got.value.t = StoredValues[i].t
                   /\ c.got.value = StoredValues[i]
           /\ (~c.denied /\ held /\ c.storage[c.key] = SpacedText)
                => /\ c.got.value.t = "arr"
                   /\ c.got.value = JArr(<<JNum(1), JObj(<<Member("id", JNum(7))>>)>>)

\* The users key held a text cut short and the call returned the default [].
C20_Witness ==
    /\ last = "storage"
    /\ ensureLog[1].key = "pgrc_users"
    /\ "pgrc_users" \in DOMAIN ensureLog[1].storage
    /\ ensureLog[1].storage["pgrc_users"] = "[1,"
    /\ ~ensureLog[1].denied
    /\ ensureLog[1].defaultValue.t = "arr"
    /\ ensureLog[1].got.out = "returned"
    /\ ensureLog[1].got.value.t = "arr"
    /\ ensureLog[1].got.value = JArr(<<>>)
    /\ ensureLog[1].got.storage = ensureLog[1].storage

\* The views of the routes that require authorization.
ProtectedViews == {ROUTES[key].view : key \in {k \in DOMAIN ROUTES : ROUTES[k].auth}}

\* C21: no step of the router writes the template of a protected route into the
\* mount point while the current-user pointer is empty, a logout during the
\* template's fetch included.
C21_ProtectedTemplateNeedsSession ==
    [][(/\ last' \in {"route", "template"}
        /\ mount' # mount
        /\ mount'.view \in ProtectedViews) => currentUser # Null]_vars

\* Task t is still suspended after the step, at position j, as it was (the
\* elements it captured may have left the document meanwhile).
StillSuspended(t, j) ==
    /\ j \in 1..Len(tasks')
    /\ tasks'[j] = [t EXCEPT !.att = tasks'[j].att]

\* C22: a transition suspended on its template fetch or on its controller's
\* lookup is never cancelled: a later location change and its transition leave it
\* suspended, and the end of another transition's await leaves it suspended; when
\* its own template arrives it writes its own view into the mount point whatever
\* the location has become since, so the mount point shows what the last
\* transition to write has written.
C22_NoTransitionIsCancelled ==
    /\ [][last' \in {"navigate", "route"}
          => \A i \in 1..Len(tasks) : StillSuspended(tasks[i], i)]_vars
    /\ [][last' \in {"template", "recipe"}
          => \E i \in 1..Len(tasks) :
                /\ \A j \in 1..(i - 1) : StillSuspended(tasks[j], j)
                /\ \A j \in (i + 1)..Len(tasks) : StillSuspended(tasks[j], j - 1)]_vars
    /\ [][\A i \in 1..Len(tasks) :
            (last' = "template" /\ tasks[i].k = "tpl" /\ TemplateResponse(i, TRUE))
            => /\ mount'.view = ROUTES[tasks[i].key].view
               /\ ROUTES[tasks[i].key].template \in DOMAIN fragmentsCache']_vars
    /\ [][\A i \in 1..Len(tasks) :
            (last' = "template" /\ tasks[i].k = "tpl" /\ TemplateResponse(i, FALSE))
            => mount'.view = "error"]_vars

\* The location went from home to search while the home template was being
\* fetched; the search template arrived first and the home template last: both
\* transitions have ended and the mount point shows home under the location
\* #/search.
C22_Witness ==
    /\ last = "template"
    /\ tasks = <<>> /\ hashEvents = 0
    /\ hash = "#/search" /\ activeRoute = "#/search"
    /\ mount.view = "home"
    /\ DOMAIN fragmentsCache = {"./home.html", "./search.html"}

\* What is kept in localStorage.
localStorage == <<users, reviews, meals, currentUser>>

\* C23: a transition to a location that matches no route writes the NotFound page
\* into the mount point and nothing else; a transition to a protected route with
\* no current user sets the location to #/login and nothing else. Both leave the
\* active location, the template cache and the storage as they were, start no
\* fetch and leave the navbar alone.
C23_NotFoundAndRedirectFrame ==
    /\ [][(/\ last' = "route"
           /\ hash \notin DOMAIN ROUTES
           /\ StartsWith(hash, "#/") /\ ~StartsWith(hash, "#/recipe/")
           /\ DeliverHashChange)
          => /\ mount' = FreshMount("notfound")
             /\ Len(tasks') = Len(tasks)
             /\ \A i \in 1..Len(tasks) : StillSuspended(tasks[i], i)
             /\ UNCHANGED <<activeRoute, fragmentsCache, localStorage, hash, navTarget,
                            authAction, searchResults, listening>>
             /\ hashEvents' = hashEvents - 1]_vars
    /\ [][(/\ last' = "route"
           /\ hash \in DOMAIN ROUTES
           /\ ROUTES[hash].auth
           /\ currentUser = Null
           /\ DeliverHashChange)
          => /\ hash' = "#/login"
             /\ hashEvents' = hashEvents
             /\ UNCHANGED <<activeRoute, fragmentsCache, localStorage, mount, tasks, navTarget,
                            authAction, searchResults, listening>>]_vars

\* Ann, logged in with the home view mounted, went to #/nowhere: the NotFound page
\* is mounted and the active location is still #/home.
C23_Witness ==
    /\ last = "route"
    /\ hash = "#/nowhere"
    /\ mount = FreshMount("notfound")
    /\ activeRoute = "#/home" /\ navTarget = "#/home"
    /\ currentUser = Ann
    /\ DOMAIN fragmentsCache = {"./home.html"}

(***************************************************************************)
(* Start-up: the page is opened with or without cached recipes; with none, *)
(* initApp awaits the preload before it registers the hashchange listener  *)
(* and handles the first route.  Template fetches end; the preload request *)
(* may stay unanswered for ever.                                           *)
(***************************************************************************)
StartupLocations == {"#/home", "#/search", "#/login", "#/nowhere"}

InitStartup ==
    \E stored \in {<<>>, Preloaded}, location \in {"", "#/search"} :
        PageLoad(<<Ann>>, Null, <<>>, stored, location)

\* A template fetch ends, one way or the other.
SomeTemplateResponse == \E i \in 1..Len(tasks), ok \in BOOLEAN : TemplateResponse(i, ok)

\* The preload request is answered.
SomePreloadResponse ==
    \E i \in 1..Len(tasks), resp \in PreloadResponses : PreloadResponse(i, resp)

NextStartup ==
    \/ \E h \in StartupLocations : Navigate(h)
    \/ DeliverHashChange
    \/ SomeTemplateResponse
    \/ SomePreloadResponse

\* The browser delivers every queued hashchange event and every template fetch
\* ends; nothing makes the catalog answer the preload.
SpecStartup ==
    /\ InitStartup
    /\ [][NextStartup]_vars
    /\ WF_vars(DeliverHashChange)
    /\ WF_vars(SomeTemplateResponse)

\* The transition to location h has been processed and has rendered: h is the
\* recorded active location and no fetch of its template is under way.
Processed(h) ==
    /\ activeRoute = h
    /\ \A i \in 1..Len(tasks) : ~(tasks[i].k = "tpl" /\ tasks[i].hash = h)

\* C24: whatever network call stays unanswered, a change of the location to
\* #/search is processed and its view rendered, unless the location changes
\* again first.
C24_OtherRoutesStillRender ==
    (hash = "#/search") ~> (hash # "#/search" \/ Processed("#/search"))

(***************************************************************************)
(* The highlighted navbar links.                                           *)
(***************************************************************************)
\* The targets of the links under #ccNavLinks.
NavLinks ==
    {"#/home", "#/search", "#/recipe", "#/cookbook", "#/reviews", "#/profile",
     "#/login", "#/register"}

\* Lines 165-179: what updateActiveNav(targetHash) decides for one link.
isActive(targetHash, linkHash) ==
    /\ StartsWith(linkHash, "#/")
    /\ StartsWith(targetHash, linkHash)

\* The links that carry the class "active": updateActiveNav sets or clears it
\* on every link, so the last call alone decides.
ActiveLinks == {link \in NavLinks : isActive(navTarget, link)}

\* The location as lines 72-77 read it.
Location ==
    LET given == IF hash = "" THEN "#/home" ELSE hash
    IN IF ~StartsWith(given, "#/") THEN "#/home" ELSE given

\* C25: once a transition has completed and nothing else is under way, a link
\* is marked active exactly when the location starts with the link's target.
\* Before the first call of updateActiveNav the marking is the page's own, so
\* only the states after such a call are looked at.
C25_ActiveLinksFollowLocation ==
    (/\ last \in {"route", "template"} /\ tasks = <<>> /\ hashEvents = 0
     /\ navTarget # "")
        => \A link \in NavLinks : link \in ActiveLinks <=> StartsWith(Location, link)

(***************************************************************************)
(* The recipe detail route without a recipe.                               *)
(***************************************************************************)
\* Locations of the recipe route that carry no id.
NoIdLocations == {"#/recipe", "#/recipe/"}

RecipeLocations == NoIdLocations \cup {"#/home", "#/recipe/m2", "#/recipe/m9"}

InitRecipe ==
    \E current \in {Null, Ann}, location \in {"#/recipe", "#/recipe/m9"} :
        PageLoad(<<Ann>>, current, <<>>, Preloaded, location)

NextRecipe ==
    \/ \E h \in RecipeLocations : Navigate(h)
    \/ DeliverHashChange
    \/ \E i \in 1..Len(tasks), ok \in BOOLEAN : TemplateResponse(i, ok)
    \/ \E i \in 1..Len(tasks) :
          \E resp \in LookupResponses(tasks[i].meal, {"v1"}) : RecipeResponse(i, resp)

SpecRecipe == InitRecipe /\ [][NextRecipe]_vars

\* The transition for location h has ended with the not-found message in the
\* recipe view: the view is mounted, the navbar was refreshed for h as after any
\* controller that returned, and the recipe cache is as it was.
EndsNotFound(h) ==
    /\ mount'.view = "recipe"
    /\ mount'.stage = "missing"
    /\ navTarget' = h
    /\ meals' = meals

\* C26: the recipe route opened without an id, or with an id for which the
\* catalog answers with no recipe, ends with the not-found message in the
\* recipe view; the error page is not rendered and the recipe cache is not
\* written.
C26_MissingRecipeIsNotAnError ==
    /\ [][(/\ last' = "route"
           /\ Location \in NoIdLocations
           /\ ROUTES["#/recipe"].template \in DOMAIN fragmentsCache)
          => EndsNotFound(Location) /\ Len(tasks') = Len(tasks)]_vars
    /\ [][\A i \in 1..Len(tasks) :
            (TemplateResponse(i, TRUE) /\ tasks[i].hash \in NoIdLocations)
                => EndsNotFound(tasks[i].hash) /\ Len(tasks') = Len(tasks) - 1]_vars
    /\ [][\A i \in 1..Len(tasks) :
            RecipeResponse(i, Response(TRUE, <<>>))
                => /\ meals' = meals
                   /\ mount'.view = mount.view
                   /\ tasks[i].att => EndsNotFound(tasks[i].hash)
                   /\ Len(tasks') = Len(tasks) - 1]_vars

\* The lookup of m9 was answered with no recipe, and the view says so.
C26_Witness ==
    /\ last = "recipe"
    /\ hash = "#/recipe/m9"
    /\ mount.view = "recipe"
    /\ mount.stage = "missing"
    /\ navTarget = "#/recipe/m9"
    /\ DOMAIN meals = {"m1"}
    /\ tasks = <<>>

(***************************************************************************)
(* The current-user pointer and the Users collection.                      *)
(***************************************************************************)
SessionLocations == {"#/login", "#/register", "#/profile", "#/recipe/m1", "#/cookbook"}

\* Ann is stored and logged in, with or without a recipe in her cookbook.
InitSession ==
    \E ann \in CookbookStores, location \in {"#/profile", "#/recipe/m1"} :
        PageLoad(<<ann>>, ann, <<>>, Preloaded, location)

NextSession ==
    \/ \E h \in SessionLocations : Navigate(h)
    \/ DeliverHashChange
    \/ \E i \in 1..Len(tasks) : TemplateResponse(i, TRUE)
    \/ RegisterSubmit(RegisterForm(" bob", "b@x ", " secret", "secret ", ""))
    \/ LoginSubmit("ann", "secret")
    \/ NavLogout
    \/ ProfileSubmit("c@x", "")
    \/ ProfileLogout
    \/ ProfileDelete
    \/ ToggleCookbook
    \/ NoteChange("salt")
    \/ CookbookRemove("m1")
    \/ CookbookNote("m1", "salt")

SpecSession == InitSession /\ [][NextSession]_vars

\* C27: the current-user pointer is empty, or it equals, field for field, the
\* stored User that has its id.
C27_PointerMirrorsStoredUser ==
    \/ currentUser = Null
    \/ \E i \in 1..Len(users) : users[i].id = currentUser.id /\ users[i] = currentUser

\* Ann, logged in, has changed her address and put m1 in her cookbook with a
\* note: the pointer and the stored User carry all of it.
C27_Witness ==
    /\ currentUser # Null
    /\ currentUser.id = 1
    /\ currentUser.email = "c@x"
    /\ currentUser.cookbook = <<Entry("m1", "salt")>>
    /\ \E i \in 1..Len(users) : users[i] = currentUser

(***************************************************************************)
(* Redirects, with the user away: the page is opened and left alone.       *)
(***************************************************************************)
\* Where the page may be opened. The home route is reached through the empty
\* and the malformed location, which leave the address as it is.
OpeningLocations ==
    {"", "#about", "#/login", "#/register", "#/profile", "#/cookbook", "#/reviews",
     "#/search", "#/nowhere"}

\* What localStorage may hold: no, one or two Users; no session, or the session
\* of a User who may since have gone from the list; recipes cached or not.
InitRedirects ==
    \E stored \in {<<>>, <<Ann>>, <<Ann, Bob>>}, current \in {Null, Ann, Bob},
       cached \in {<<>>, Preloaded}, location \in OpeningLocations :
        PageLoad(stored, current, <<>>, cached, location)

NextRedirects ==
    \/ DeliverHashChange
    \/ SomeTemplateResponse
    \/ SomePreloadResponse

\* The browser delivers the queued hashchange events and every request made is
\* answered, well or badly.
SpecRedirects ==
    /\ InitRedirects
    /\ [][NextRedirects]_vars
    /\ WF_vars(DeliverHashChange)
    /\ WF_vars(SomeTemplateResponse)
    /\ WF_vars(SomePreloadResponse)

\* The location is a protected route and there is no session.
NeedsLogin ==
    /\ Location \in DOMAIN ROUTES
    /\ ROUTES[Location].auth
    /\ currentUser = Null

\* The location is the login or the register route and there is a session.
NeedsHome ==
    /\ Location \in {"#/login", "#/register"}
    /\ currentUser # Null

\* Nothing is queued and nothing is awaited.
AtRest == hashEvents = 0 /\ tasks = <<>>

\* C28: left alone, the page changes its location only by a redirect, to
\* #/login from a protected route without a session or to #/home from the login
\* or register route with one; the route a redirect leads to does not redirect,
\* so the chain has no cycle; and the page comes to rest on a route that has
\* rendered and redirects no further, or on the error page when the fetch of a
\* template failed.
C28_RedirectChainEnds ==
    /\ [][hash' # hash => \/ NeedsLogin /\ hash' = "#/login"
                          \/ NeedsHome /\ hash' = "#/home"]_vars
    /\ [][hash' # hash => ~NeedsLogin' /\ ~NeedsHome']_vars
    /\ <>[](/\ AtRest
            /\ mount.view # "blank"
            /\ mount.view # "error" => ~NeedsLogin /\ ~NeedsHome)

\* The page was opened with a session on a route that sent it on to #/home,
\* where it rests.
C28_Witness ==
    /\ AtRest
    /\ hash = "#/home"
    /\ currentUser # Null
    /\ mount.view = "home"
    /\ activeRoute = "#/home"

(***************************************************************************)
(* Concurrent completions and the recipe cache.                            *)
(***************************************************************************)
\* after holds every recipe of before unchanged, but for the ids of fetched,
\* which it holds as well.
KeepsAndAdds(before, fetched, after) ==
    /\ fetched \subseteq DOMAIN after
    /\ \A id \in DOMAIN before :
          id \in DOMAIN after /\ (id \notin fetched => after[id] = before[id])

\* C29: a lookup or a search that succeeds while another call is in flight
\* caches what it fetched and leaves every other entry of the recipe cache as
\* it is, whatever the order of the completions; so the recipe a detail view
\* shows and the recipes of the search results are in the cache.
C29_CompletionsLoseNoEntry ==
    /\ [][\A i \in 1..Len(tasks) : \A resp \in LookupResponses(tasks[i].meal, Revisions) :
            (Len(tasks) > 1 /\ resp.ok /\ resp.meals # <<>> /\ RecipeResponse(i, resp))
            => KeepsAndAdds(meals, {tasks[i].meal}, meals')]_vars
    /\ [][(Len(tasks) > 1 /\ last' \in {"results", "details"} /\ searchResults' # <<>>)
            => KeepsAndAdds(meals,
                            {searchResults'[k].id : k \in 1..Len(searchResults')} \ {""},
                            meals')]_vars
    /\ [](mount.view = "recipe" /\ mount.stage = "full" => mount.meal \in DOMAIN meals)
    /\ []({searchResults[k].id : k \in 1..Len(searchResults)} \ {""} \subseteq DOMAIN meals)

\* The lookups of m1 and of m2 were in flight together: the one of m2, issued
\* last, has been answered and its recipe is shown and cached, the one of m1 is
\* still awaited by the transition that was overtaken.
C29_Witness ==
    /\ last = "recipe"
    /\ Len(tasks) = 1
    /\ tasks[1].k = "recipe"
    /\ tasks[1].meal = "m1"
    /\ ~tasks[1].att
    /\ mount.view = "recipe"
    /\ mount.stage = "full"
    /\ mount.meal = "m2"
    /\ DOMAIN meals = {"m2"}

(***************************************************************************)
(* Login.                                                                  *)
(***************************************************************************)
\* What may be typed into the two fields of the login form.
LoginIdentifiers == Usernames \cup Emails
LoginPasswords == Passwords \cup WrongPasswords

\* The stored Users that identifier and password are the credentials of.
Holders(identifier, password) ==
    {k \in 1..Len(users) :
        /\ users[k].username = identifier \/ users[k].email = identifier
        /\ users[k].password = password}

\* This step is a login submit that treats identifier and password as the
\* credentials given: the pointer becomes a stored User they belong to, or, no
\* stored User holding them, the pointer, the Users and the location stay.
LoginDecidedOn(identifier, password) ==
    /\ users' = users
    /\ IF Holders(identifier, password) = {}
       THEN UNCHANGED <<currentUser, hash>>
       ELSE /\ \E k \in Holders(identifier, password) : currentUser' = users[k]
            /\ hash' = "#/home"

\* C30, as stated: a login submit decides on the identifier and the password
\* as they were submitted.
C30_LoginDecidesOnSubmittedText ==
    [][\A i \in LoginIdentifiers, p \in LoginPasswords :
         (last' = "login" /\ LoginSubmit(i, p)) => LoginDecidedOn(i, p)]_vars

\* C30, amended: a login submit decides on the identifier and the password with
\* the white space around them removed.
C30_LoginDecidesOnTrimmedText ==
    [][\A i \in LoginIdentifiers, p \in LoginPasswords :
         (last' = "login" /\ LoginSubmit(i, p)) => LoginDecidedOn(Trim(i), Trim(p))]_vars

\* Ann has just logged in from the login form.
C30_Witness ==
    /\ last = "login"
    /\ mount.view = "login"
    /\ currentUser = Ann
    /\ hash = "#/home"
    /\ hashEvents = 1
====
